---------------------------- MODULE Spec2Model ----------------------------
(***************************************************************************)
(* A model of the Marinetraffic monitoring core: the AIS record normalizer *)
(* (data_providers/base.py), the record-parsing providers, the on-disk     *)
(* cache (data_providers/utils.py) and the client                         *)
(* (marine_traffic_client.py).                                             *)
(*                                                                         *)
(* Python values are modelled as records [ty, s, n, sp]:                   *)
(*   ty  the Python type: "none", "str", "int", "float", "bool", "list",   *)
(*       "dict"                                                            *)
(*   s   the text of a str, as a sequence of one-character strings         *)
(*   n   the number of an int or bool; a float in tenths (12.7 is 127);    *)
(*       the length of a list                                              *)
(*   sp  "fin" for an ordinary number, "nan", "inf", "-inf" for the float  *)
(*       specials, "huge" for an int too large for a double (10**400)      *)
(* Floats of the model have at most one decimal digit, so round(x, 1)      *)
(* returns them unchanged exactly as Python does for such doubles.         *)
(***************************************************************************)
EXTENDS Integers, Sequences, FiniteSets, TLC

VARIABLES
    phase,      \* which component the run exercises and where it stands
    now,        \* the wall clock read by datetime.now(), a datetime record
    raw,        \* the raw AIS record handed to normalize_ais_record (a dict)
    dest,       \* default_destination / the requested port
    norm,       \* the outcome of normalize_ais_record
    provider,   \* the provider whose fetch_vessels runs
    payload,    \* the decoded payload the provider parses
    fetched,    \* the outcome of fetch_vessels
    clock,      \* datetime.utcnow(), in minutes
    files,      \* the cache directory: file name -> content
    stored,     \* history: the last store_cached_payload per key
    loaded,     \* the outcome of the last load_cached_payload
    supplied,   \* the provider the caller wants to hand to the client
    client,     \* the MarineTrafficClient object
    calls,      \* how often the supplied provider's fetch_vessels ran
    request,    \* the outcome of the client scenario
    disk,       \* the cache files as text: file name -> sequence of tokens
    writers,    \* the store_cached_payload calls in progress
    registry,   \* the ProviderRegistry object
    regs,       \* history: the register calls so far, in order
    found,      \* the outcome of the last registry lookup
    localtime,  \* the machine's time zone and datetime.now() on its wall clock
    single,     \* the outcome of the last predict_arrival_time call
    fleet,      \* the vessels handed to predict_bulk_arrivals
    bulk,       \* the predictions: predict_bulk_arrivals' outcome, and what
                \* the caller appended to the list
    analysis,   \* the outcome of the last calculate_arrival_windows or
                \* generate_time_series_projection call
    roster,     \* the vessels handed to the VesselClusterer
    clustered,  \* the outcome of the last VesselClusterer call
    installed,  \* the MarineTrafficClient class the monitor imports
    monitor,    \* the MarineTrafficMonitor object
    results     \* the outcome of the last monitor_port or monitor_all_ports

vars == <<phase, now, raw, dest, norm, provider, payload, fetched,
          clock, files, stored, loaded, supplied, client, calls, request,
          disk, writers, registry, regs, found,
          localtime, single, fleet, bulk, analysis,
          roster, clustered, installed, monitor, results>>

normVars == <<raw, norm>>
fetchVars == <<provider, payload, fetched>>
cacheVars == <<clock, files, stored, loaded>>
clientVars == <<supplied, client, calls, request>>
writerVars == <<disk, writers>>
regVars == <<registry, regs, found>>
predVars == <<localtime, single, fleet, bulk, analysis>>
clusterVars == <<roster, clustered>>
monitorVars == <<installed, monitor, results>>
portVars == <<clusterVars, monitorVars>>
restVars == <<writerVars, regVars, predVars, portVars>>

(***************************************************************************)
(* Python values                                                           *)
(***************************************************************************)
PyNone == [ty |-> "none", s |-> <<>>, n |-> 0, sp |-> "fin"]
PyStr(chars) == [ty |-> "str", s |-> chars, n |-> 0, sp |-> "fin"]
PyInt(i) == [ty |-> "int", s |-> <<>>, n |-> i, sp |-> "fin"]
PyHugeInt == [ty |-> "int", s |-> <<>>, n |-> 1, sp |-> "huge"]
PyFloat(tenths) == [ty |-> "float", s |-> <<>>, n |-> tenths, sp |-> "fin"]
PyNaN == [ty |-> "float", s |-> <<>>, n |-> 0, sp |-> "nan"]
PyInf == [ty |-> "float", s |-> <<>>, n |-> 0, sp |-> "inf"]
PyBool(b) == [ty |-> "bool", s |-> <<>>, n |-> IF b THEN 1 ELSE 0, sp |-> "fin"]
PyList(len) == [ty |-> "list", s |-> <<>>, n |-> len, sp |-> "fin"]

\* bool(value): Python truthiness, as used by the `or` chains of the normalizer
Truthy(v) ==
    CASE v.ty = "none" -> FALSE
      [] v.ty = "str" -> Len(v.s) > 0
      [] v.ty \in {"int", "bool"} -> v.sp = "huge" \/ v.n # 0
      [] v.ty = "float" -> v.sp # "fin" \/ v.n # 0
      [] v.ty \in {"list", "dict"} -> v.n > 0
      [] OTHER -> TRUE

\* a or b
PyOr(a, b) == IF Truthy(a) THEN a ELSE b

\* dict.get(key): None when the key is absent
Get(d, key) == IF key \in DOMAIN d THEN d[key] ELSE PyNone

FScale == 10

Digits == {"0", "1", "2", "3", "4", "5", "6", "7", "8", "9"}

DigitVal(c) ==
    CASE c = "0" -> 0 [] c = "1" -> 1 [] c = "2" -> 2 [] c = "3" -> 3
      [] c = "4" -> 4 [] c = "5" -> 5 [] c = "6" -> 6 [] c = "7" -> 7
      [] c = "8" -> 8 [] c = "9" -> 9 [] OTHER -> 0

IsDigits(chars) == \A i \in 1..Len(chars) : chars[i] \in Digits

RECURSIVE DecVal(_)
\* int(chars) for a sequence of decimal digits
DecVal(chars) ==
    IF Len(chars) = 0 THEN 0
    ELSE 10 * DecVal(SubSeq(chars, 1, Len(chars) - 1)) + DigitVal(chars[Len(chars)])

RECURSIVE LStrip(_)
LStrip(chars) ==
    IF Len(chars) > 0 /\ chars[1] = " " THEN LStrip(Tail(chars)) ELSE chars

RECURSIVE RStrip(_)
RStrip(chars) ==
    IF Len(chars) > 0 /\ chars[Len(chars)] = " "
    THEN RStrip(SubSeq(chars, 1, Len(chars) - 1)) ELSE chars

\* str.strip()
Strip(chars) == RStrip(LStrip(chars))

\* the index of the first "." of chars, 0 when there is none
DotAt(chars) ==
    IF \E i \in 1..Len(chars) : chars[i] = "."
    THEN CHOOSE i \in 1..Len(chars) :
            chars[i] = "." /\ \A j \in 1..(i - 1) : chars[j] # "."
    ELSE 0

\* The results of float(): e is "ok" or the exception raised.
FloatOk(sp, n) == [e |-> "ok", sp |-> sp, n |-> n]
FloatErr(exc) == [e |-> exc, sp |-> "fin", n |-> 0]

\* float(text) for an unsigned, stripped text
UnsignedFloat(chars) ==
    LET dot == DotAt(chars)
        ip == IF dot = 0 THEN chars ELSE SubSeq(chars, 1, dot - 1)
        fp == IF dot = 0 THEN <<>> ELSE SubSeq(chars, dot + 1, Len(chars))
    IN  IF chars \in {<<"i", "n", "f">>, <<"I", "n", "f", "i", "n", "i", "t", "y">>}
        THEN FloatOk("inf", 0)
        ELSE IF chars \in {<<"n", "a", "n">>, <<"N", "a", "N">>}
        THEN FloatOk("nan", 0)
        ELSE IF IsDigits(ip) /\ IsDigits(fp) /\ Len(ip) + Len(fp) > 0
        THEN FloatOk("fin", FScale * DecVal(ip)
                            + (IF Len(fp) = 0 THEN 0 ELSE DigitVal(fp[1])))
        ELSE FloatErr("ValueError")

\* float(text): surrounding blanks are ignored, one sign is accepted
StrToFloat(chars) ==
    LET t == Strip(chars)
        neg == Len(t) > 0 /\ t[1] = "-"
        body == IF Len(t) > 0 /\ t[1] \in {"-", "+"} THEN Tail(t) ELSE t
        u == UnsignedFloat(body)
    IN  IF u.e # "ok" \/ ~neg THEN u
        ELSE IF u.sp = "inf" THEN FloatOk("-inf", 0)
        ELSE FloatOk(u.sp, 0 - u.n)

\* float(value)
PyFloatOf(v) ==
    CASE v.ty = "str" -> StrToFloat(v.s)
      [] v.ty \in {"int", "bool"} ->
            IF v.sp = "huge" THEN FloatErr("OverflowError")
            ELSE FloatOk("fin", FScale * v.n)
      [] v.ty = "float" -> FloatOk(v.sp, v.n)
      [] OTHER -> FloatErr("TypeError")

\* int(x) of a float: truncation towards zero
Trunc(tenths) ==
    IF tenths >= 0 THEN tenths \div FScale ELSE 0 - ((0 - tenths) \div FScale)

\* round(x) of a float: to the nearest integer, ties to the even one
RoundHalfEven(tenths) ==
    LET lo == tenths \div FScale
        r == tenths % FScale
    IN  IF 2 * r < FScale THEN lo
        ELSE IF 2 * r > FScale THEN lo + 1
        ELSE IF lo % 2 = 0 THEN lo ELSE lo + 1

\* int(f) / round(f) of a float result: NaN raises ValueError, an infinity
\* raises OverflowError
ToInt(f, conv(_)) ==
    IF f.sp = "nan" THEN [e |-> "ValueError", n |-> 0]
    ELSE IF f.sp \in {"inf", "-inf"} THEN [e |-> "OverflowError", n |-> 0]
    ELSE [e |-> "ok", n |-> conv(f.n)]

\* _parse_float(value, default): float(value), default on TypeError/ValueError.
\* OverflowError (an int too large for a double) is not caught and propagates.
_parse_float(value, default) ==
    LET f == PyFloatOf(value)
    IN  IF f.e \in {"TypeError", "ValueError"} THEN FloatOk(default.sp, default.n)
        ELSE f

\* _parse_int(value, default): int(float(value)), default on TypeError/ValueError
\* (int(nan) raises ValueError). OverflowError (int(inf), or float() of a huge
\* int) is not caught and propagates.
_parse_int(value, default) ==
    LET f == PyFloatOf(value)
        i == ToInt(f, Trunc)
    IN  IF f.e \in {"TypeError", "ValueError"} THEN [e |-> "ok", n |-> default]
        ELSE IF f.e # "ok" THEN [e |-> f.e, n |-> 0]
        ELSE IF i.e = "ValueError" THEN [e |-> "ok", n |-> default]
        ELSE i

Zero == [sp |-> "fin", n |-> 0]

\* a + b on floats
FAdd(a, b) ==
    CASE a.sp = "nan" \/ b.sp = "nan" -> [sp |-> "nan", n |-> 0]
      [] a.sp = "fin" /\ b.sp = "fin" -> [sp |-> "fin", n |-> a.n + b.n]
      [] a.sp = "fin" -> [sp |-> b.sp, n |-> 0]
      [] b.sp = "fin" -> [sp |-> a.sp, n |-> 0]
      [] a.sp = b.sp -> [sp |-> a.sp, n |-> 0]
      [] OTHER -> [sp |-> "nan", n |-> 0]

\* x >= 0 on a float (false for NaN)
FNonNeg(x) == x.sp = "inf" \/ (x.sp = "fin" /\ x.n >= 0)

(***************************************************************************)
(* datetime: naive local timestamps [y, mo, d, h, mi, s]; the microsecond  *)
(* field of datetime.now() is left out.                                    *)
(***************************************************************************)
DateTime(y, mo, d, h, mi, s) == [y |-> y, mo |-> mo, d |-> d, h |-> h, mi |-> mi, s |-> s]

NoDate == DateTime(0, 0, 0, 0, 0, 0)

IsLeap(y) == (y % 4 = 0 /\ y % 100 # 0) \/ y % 400 = 0

DaysInMonth(y, mo) ==
    CASE mo \in {4, 6, 9, 11} -> 30
      [] mo = 2 -> IF IsLeap(y) THEN 29 ELSE 28
      [] OTHER -> 31

MinutesPerDay == 1440

RECURSIVE AddMinutes(_, _)
\* dt + timedelta(minutes = m)
AddMinutes(dt, m) ==
    LET inMonth == ((dt.d - 1) * 24 + dt.h) * 60 + dt.mi + m
        monthLen == DaysInMonth(dt.y, dt.mo) * MinutesPerDay
        first == [dt EXCEPT !.d = 1, !.h = 0, !.mi = 0]
    IN  IF inMonth < 0
        THEN LET py == IF dt.mo = 1 THEN dt.y - 1 ELSE dt.y
                 pm == IF dt.mo = 1 THEN 12 ELSE dt.mo - 1
             IN  AddMinutes([first EXCEPT !.y = py, !.mo = pm],
                            inMonth + DaysInMonth(py, pm) * MinutesPerDay)
        ELSE IF inMonth >= monthLen
        THEN AddMinutes([first EXCEPT !.y = IF dt.mo = 12 THEN dt.y + 1 ELSE dt.y,
                                      !.mo = IF dt.mo = 12 THEN 1 ELSE dt.mo + 1],
                        inMonth - monthLen)
        ELSE [dt EXCEPT !.d = (inMonth \div MinutesPerDay) + 1,
                        !.h = (inMonth % MinutesPerDay) \div 60,
                        !.mi = inMonth % 60]

\* The directives of the strptime formats; every other token is a literal.
Directives == {"Y", "m", "d", "H", "M", "S"}

FieldWidth(tok) == IF tok = "Y" THEN 4 ELSE IF tok \in Directives THEN 2 ELSE 1

known_formats ==
    << <<"Y", "-", "m", "-", "d", "T", "H", ":", "M", ":", "S">>,
       <<"Y", "-", "m", "-", "d", " ", "H", ":", "M", ":", "S">>,
       <<"Y", "-", "m", "-", "d", " ", "H", ":", "M">>,
       <<"d", "/", "m", "/", "Y", " ", "H", ":", "M">>,
       <<"m", "-", "d", " ", "H", ":", "M">>,
       <<"d", "-", "m", " ", "H", ":", "M">> >>

RECURSIVE Scan(_, _, _)
\* Match chars against fmt, field by field (fields zero padded to their
\* width); the result is <<TRUE, fields>> or <<FALSE, ..>>. Fields not in the
\* format keep strptime's defaults (year 1900, month 1, day 1, time 0).
Scan(chars, fmt, acc) ==
    IF Len(fmt) = 0 THEN <<Len(chars) = 0, acc>>
    ELSE LET tok == Head(fmt)
             w == FieldWidth(tok)
             piece == SubSeq(chars, 1, w)
             rest == SubSeq(chars, w + 1, Len(chars))
         IN  IF Len(chars) < w THEN <<FALSE, acc>>
             ELSE IF tok \in Directives
             THEN IF IsDigits(piece)
                  THEN Scan(rest, Tail(fmt), [acc EXCEPT ![tok] = DecVal(piece)])
                  ELSE <<FALSE, acc>>
             ELSE IF piece[1] = tok THEN Scan(rest, Tail(fmt), acc)
             ELSE <<FALSE, acc>>

\* datetime.strptime(chars, fmt): [e |-> "ok", dt] or ValueError
strptime(chars, fmt) ==
    LET defaults == [Y |-> 1900, m |-> 1, d |-> 1, H |-> 0, M |-> 0, S |-> 0]
        got == Scan(chars, fmt, defaults)
        f == got[2]
        valid == /\ got[1]
                 /\ f.Y >= 1
                 /\ f.m \in 1..12
                 /\ f.d \in 1..DaysInMonth(f.Y, f.m)
                 /\ f.H \in 0..23
                 /\ f.M \in 0..59
                 /\ f.S \in 0..59
    IN  IF valid
        THEN [e |-> "ok", dt |-> DateTime(f.Y, f.m, f.d, f.H, f.M, f.S)]
        ELSE [e |-> "ValueError", dt |-> NoDate]

\* The results of _normalize_eta: None, an ISO timestamp, or an exception.
EtaNone == [e |-> "ok", k |-> "none", dt |-> NoDate]
EtaIso(dt) == [e |-> "ok", k |-> "iso", dt |-> dt]
EtaRaise(exc) == [e |-> exc, k |-> "none", dt |-> NoDate]

RECURSIVE TryFormats(_, _, _)
\* the loop over known_formats: the first format that parses wins; a parsed
\* year of 1900 is replaced by the current year
TryFormats(chars, i, t) ==
    IF i > Len(known_formats) THEN <<FALSE, EtaNone>>
    ELSE LET p == strptime(chars, known_formats[i])
         IN  IF p.e = "ok"
             THEN IF p.dt.y = 1900
                  THEN IF p.dt.d > DaysInMonth(t.y, p.dt.mo)
                       THEN TryFormats(chars, i + 1, t)
                       ELSE <<TRUE, EtaIso([p.dt EXCEPT !.y = t.y])>>
                  ELSE <<TRUE, EtaIso(p.dt)>>
             ELSE TryFormats(chars, i + 1, t)

Sentinels ==
    { <<>>,
      <<"0","0","0","0","-","0","0","-","0","0"," ","0","0",":","0","0">>,
      <<"0","0","0","0","-","0","0","-","0","0","T","0","0",":","0","0",":","0","0">> }

\* _normalize_eta(raw_eta), with t the value of datetime.now()
_normalize_eta(raw_eta, t) ==
    IF raw_eta.ty = "none" \/ (raw_eta.ty = "str" /\ raw_eta.s \in Sentinels)
    THEN EtaNone
    ELSE IF raw_eta.ty \in {"int", "float", "bool"}
    THEN \* timedelta(hours=float(raw_eta)): NaN raises ValueError, an
         \* infinity or a huge int raises OverflowError
         LET f == PyFloatOf(raw_eta)
         IN  IF f.e # "ok" THEN EtaRaise(f.e)
             ELSE IF f.sp = "nan" THEN EtaRaise("ValueError")
             ELSE IF f.sp # "fin" THEN EtaRaise("OverflowError")
             ELSE EtaIso(AddMinutes(t, f.n * (60 \div FScale)))
    ELSE IF raw_eta.ty # "str" THEN EtaNone
    ELSE LET eta_str == Strip(raw_eta.s)
             parsed == TryFormats(eta_str, 1, t)
         IN  IF Len(eta_str) = 0 THEN EtaNone
             ELSE IF parsed[1] THEN parsed[2]
             ELSE IF IsDigits(eta_str) /\ Len(eta_str) \in {3, 4}
             THEN LET hours == DecVal(SubSeq(eta_str, 1, Len(eta_str) - 2))
                      minutes == DecVal(SubSeq(eta_str, Len(eta_str) - 1, Len(eta_str)))
                      ahead == IF hours - t.h > 0 THEN hours - t.h ELSE 0
                  IN  \* datetime.replace(minute=minutes) raises ValueError
                      \* when minutes is not in 0..59
                      IF minutes > 59 THEN EtaRaise("ValueError")
                      ELSE EtaIso(AddMinutes([t EXCEPT !.mi = minutes, !.s = 0],
                                             60 * ahead))
             ELSE EtaNone

(***************************************************************************)
(* normalize_ais_record                                                    *)
(***************************************************************************)
Unknown == PyStr(<<"U", "n", "k", "n", "o", "w", "n">>)

\* The first exception raised by a sequence of evaluation steps, "ok" if none.
FirstError(steps) ==
    IF \E i \in 1..Len(steps) : steps[i] # "ok"
    THEN steps[CHOOSE i \in 1..Len(steps) :
                    steps[i] # "ok" /\ \A j \in 1..(i - 1) : steps[j] = "ok"]
    ELSE "ok"

\* int(round(_parse_float(value, default)))
RoundedInt(value, default) ==
    LET f == _parse_float(value, default)
    IN  IF f.e # "ok" THEN [e |-> f.e, n |-> 0] ELSE ToInt(f, RoundHalfEven)

\* The results of normalize_ais_record: the vessel, or the exception raised.
Normalized(vessel) == [out |-> "vessel", at |-> "", vessel |-> <<vessel>>]
\* `at` tells the missing-identifier error ("mmsi") from an exception that
\* escapes the evaluation of another field ("field").
NormRaise(exc, at) == [out |-> exc, at |-> at, vessel |-> <<>>]

\* normalize_ais_record(raw, default_destination), with t the value of
\* datetime.now(). The fields are evaluated in the order of the source; the
\* first exception raised ends the call.
normalize_ais_record(r, default_destination, t) ==
    LET mmsi == _parse_int(PyOr(Get(r, "mmsi"), Get(r, "MMSI")), 0)
        latitude == PyOr(PyOr(Get(r, "latitude"), Get(r, "LAT")), Get(r, "lat"))
        longitude == PyOr(PyOr(Get(r, "longitude"), Get(r, "LON")), Get(r, "lon"))
        dim_a == _parse_float(Get(r, "dim_a"), Zero)
        dim_b == _parse_float(Get(r, "dim_b"), Zero)
        dim_c == _parse_float(Get(r, "dim_c"), Zero)
        dim_d == _parse_float(Get(r, "dim_d"), Zero)
        imo == _parse_int(PyOr(Get(r, "imo"), Get(r, "IMO")), 0)
        eta == _normalize_eta(PyOr(Get(r, "eta"), Get(r, "ETA")), t)
        speed == _parse_float(PyOr(PyOr(Get(r, "speed"), Get(r, "SOG")), Get(r, "sog")), Zero)
        course == RoundedInt(PyOr(PyOr(Get(r, "course"), Get(r, "COG")), Get(r, "cog")), Zero)
        lat == _parse_float(latitude, Zero)
        lon == _parse_float(longitude, Zero)
        draught == _parse_float(PyOr(PyOr(Get(r, "draught"), Get(r, "DRAUGHT")),
                                     Get(r, "draught_m")), Zero)
        length == RoundedInt(PyOr(PyOr(Get(r, "length"), Get(r, "LENGTH")),
                                  Get(r, "length_m")), FAdd(dim_a, dim_b))
        width == RoundedInt(PyOr(PyOr(Get(r, "width"), Get(r, "WIDTH")),
                                 Get(r, "width_m")), FAdd(dim_c, dim_d))
        raised == FirstError(<<dim_a.e, dim_b.e, dim_c.e, dim_d.e, imo.e, eta.e,
                               speed.e, course.e, lat.e, lon.e, draught.e,
                               length.e, width.e>>)
    IN  IF mmsi.e # "ok" THEN NormRaise(mmsi.e, "field")
        ELSE IF mmsi.n = 0 THEN NormRaise("ValueError", "mmsi")
        ELSE IF raised # "ok" THEN NormRaise(raised, "field")
        ELSE Normalized(
                [mmsi |-> mmsi.n,
                 imo |-> imo.n,
                 ship_name |-> PyOr(PyOr(PyOr(Get(r, "ship_name"), Get(r, "SHIPNAME")),
                                         Get(r, "name")), Unknown),
                 ship_type |-> PyOr(PyOr(PyOr(Get(r, "ship_type"), Get(r, "SHIPTYPE")),
                                         Get(r, "type")), Unknown),
                 destination |-> PyOr(PyOr(Get(r, "destination"), Get(r, "DESTINATION")),
                                      PyStr(default_destination)),
                 eta |-> [k |-> eta.k, dt |-> eta.dt],
                 speed |-> [sp |-> speed.sp, n |-> speed.n],
                 course |-> course.n,
                 latitude |-> [sp |-> lat.sp, n |-> lat.n],
                 longitude |-> [sp |-> lon.sp, n |-> lon.n],
                 draught |-> [sp |-> draught.sp, n |-> draught.n],
                 length |-> length.n,
                 width |-> width.n,
                 status |-> PyOr(PyOr(PyOr(Get(r, "status"), Get(r, "STATUS")),
                                      Get(r, "nav_status")), Unknown)])

(***************************************************************************)
(* fetch_vessels of the record-parsing providers.                          *)
(*                                                                         *)
(* A response is modelled by the payload it decodes to:                    *)
(*   root    "neterr" (session.get or raise_for_status raises), "badjson"  *)
(*           (the body is not JSON), "list", "dict", "scalar"              *)
(*   items   the elements of the root list or of the container list; an    *)
(*           element is [isdict, rec]                                      *)
(*   ckey    for a dict root, the container key it holds ("none" if none)  *)
(*   clist   whether the value under ckey is a list                        *)
(*   err     for a dict root, payload.get("ERROR") or payload.get("error") *)
(*   status  for a dict root, payload.get("status")                        *)
(*   self    for a dict root, its remaining keys (it may be one record)    *)
(* A GeoJSON feature's rec is its properties; the coordinates that the     *)
(* file provider copies from the geometry into missing latitude/longitude  *)
(* keys are left out.                                                      *)
(***************************************************************************)
Naples == <<"N", "a", "p", "l", "e", "s">>
Rome == <<"R", "o", "m", "e">>

\* the ports of PORT_COORDINATES that the model uses
KnownPorts == {Naples}

LowerChar(c) ==
    CASE c = "O" -> "o" [] c = "K" -> "k" [] c = "E" -> "e" [] c = "R" -> "r"
      [] c = "D" -> "d" [] c = "M" -> "m" [] c = "Y" -> "y" [] c = "A" -> "a"
      [] c = "N" -> "n" [] c = "C" -> "c" [] c = "H" -> "h" [] OTHER -> c

\* str.lower()
Lower(chars) == [i \in 1..Len(chars) |-> LowerChar(chars[i])]

\* str(value) for the values a status field takes
PyStrOf(v) ==
    CASE v.ty = "str" -> v.s
      [] v.ty = "int" /\ v.sp = "fin" /\ v.n \in 0..9 ->
            <<CHOOSE c \in Digits : DigitVal(c) = v.n>>
      [] OTHER -> <<"?">>

SuccessTokens == { <<"o", "k">>, <<"s", "u", "c", "c", "e", "s", "s">>, <<"0">> }

\* the dict a dict-rooted payload is when it is read as one record
SelfRecord(p) ==
    [k \in DOMAIN p.self \cup (IF p.status.ty = "none" THEN {} ELSE {"status"})
        |-> IF k \in DOMAIN p.self THEN p.self[k] ELSE p.status]

SelfItem(p) == [isdict |-> TRUE, rec |-> SelfRecord(p)]

\* [r for r in items if isinstance(r, dict)]
OnlyDicts(items) == SelectSeq(items, LAMBDA it : it.isdict)

RECURSIVE Collect(_, _, _, _)
\* for record in records: try: vessels.append(normalize_ais_record(record,
\* port_name)) except ValueError: continue
\* Any other exception ends fetch_vessels. (The record's outcome r is bound
\* once, as the loop body computes it once.)
Collect(records, acc, port_name, t) ==
    IF Len(records) = 0 THEN [out |-> "ok", vessels |-> acc]
    ELSE CHOOSE c \in
            { IF r.out = "vessel"
              THEN Collect(Tail(records), acc \o r.vessel, port_name, t)
              ELSE IF r.out = "ValueError"
              THEN Collect(Tail(records), acc, port_name, t)
              ELSE [out |-> r.out, vessels |-> <<>>] :
              r \in {normalize_ais_record(Head(records).rec, port_name, t)} } : TRUE

\* What a provider has when its loop over the records starts: the records it
\* iterates over, or the exception raised before the loop; requests counts
\* the HTTP requests made.
Records(items, requests) == [e |-> "ok", records |-> items, requests |-> requests]
FetchRaise(exc, requests) == [e |-> exc, records |-> <<>>, requests |-> requests]

\* OpenAisFileProvider._iter_records
OpenAisFileProvider_iter_records(prov, p) ==
    IF prov.suffix \in {"json", "geojson"}
    THEN IF p.root = "neterr" THEN FetchRaise("OSError", 0)
         ELSE IF p.root = "badjson" THEN FetchRaise("ValueError", 0)
         ELSE IF p.root = "list" THEN Records(OnlyDicts(p.items), 0)
         ELSE IF p.root = "dict" /\ p.ckey = "features"
         THEN IF p.clist THEN Records(OnlyDicts(p.items), 0)
              ELSE FetchRaise("TypeError", 0)
         ELSE IF p.root = "dict" /\ p.ckey = "data" /\ p.clist
         THEN Records(OnlyDicts(p.items), 0)
         ELSE Records(<<>>, 0)
    ELSE IF prov.suffix = "csv"
    THEN IF p.root = "neterr" THEN FetchRaise("OSError", 0)
         ELSE Records(OnlyDicts(p.items), 0)
    ELSE FetchRaise("ValueError", 0)

\* OpenAisApiProvider.fetch_vessels, up to its loop over the records
OpenAisApiProvider_records(prov, p) ==
    IF p.root = "neterr" THEN FetchRaise("RequestException", 1)
    ELSE IF p.root = "badjson" THEN FetchRaise("ValueError", 1)
    ELSE IF p.root = "dict"
    THEN IF p.ckey \in {"data", "results"} /\ p.clist
         THEN Records(OnlyDicts(p.items), 1)
         ELSE Records(<<SelfItem(p)>>, 1)
    ELSE IF p.root = "list" THEN Records(OnlyDicts(p.items), 1)
    ELSE Records(<<>>, 1)

\* AisHubApiProvider.fetch_vessels, up to its loop over the records;
\* _build_query raises ValueError for a port that is not in the coordinate
\* table, before any request is made
AisHubApiProvider_records(prov, p, port_name) ==
    LET has_record_container == p.ckey \in {"data", "ais", "rows"}
        token == Lower(Strip(PyStrOf(p.status)))
    IN  IF port_name \notin KnownPorts THEN FetchRaise("ValueError", 0)
        ELSE IF p.root = "neterr" THEN FetchRaise("RequestException", 1)
        ELSE IF p.root = "badjson" THEN FetchRaise("ValueError", 1)
        ELSE IF p.root = "dict"
        THEN IF Truthy(p.err) THEN FetchRaise("ValueError", 1)
             ELSE IF /\ p.status.ty # "none"
                     /\ ~has_record_container
                     /\ token \notin SuccessTokens
             THEN FetchRaise("ValueError", 1)
             ELSE IF has_record_container /\ p.clist
             THEN Records(OnlyDicts(p.items), 1)
             ELSE Records(<<SelfItem(p)>>, 1)
        ELSE IF p.root = "list" THEN Records(OnlyDicts(p.items), 1)
        ELSE FetchRaise("ValueError", 1)

\* the api key MarineTrafficApiProvider.fetch_vessels refuses
RefusedKey == <<"d", "e", "m", "o", "_", "k", "e", "y">>

\* MarineTrafficApiProvider.fetch_vessels with the key looked at only after
\* the response has arrived
MarineTrafficApiProvider_key_checked_late(prov, p) ==
    IF p.root = "neterr" THEN FetchRaise("RequestException", 1)
    ELSE IF Lower(prov.api_key) = RefusedKey THEN FetchRaise("ValueError", 1)
    ELSE IF p.root = "badjson" THEN FetchRaise("ValueError", 1)
    ELSE IF p.root = "list" THEN Records(OnlyDicts(p.items), 1)
    ELSE IF p.root = "dict"
    THEN IF p.ckey = "data" /\ p.clist
         THEN Records(OnlyDicts(p.items), 1)
         ELSE Records(<<SelfItem(p)>>, 1)
    ELSE FetchRaise("ValueError", 1)

\* MarineTrafficApiProvider.fetch_vessels, up to its loop over the records
MarineTrafficApiProvider_records(prov, p) ==
    IF Lower(prov.api_key) = RefusedKey THEN FetchRaise("ValueError", 0)
    ELSE IF p.root = "neterr" THEN FetchRaise("RequestException", 1)
    ELSE IF p.root = "badjson" THEN FetchRaise("ValueError", 1)
    ELSE IF p.root = "list" THEN Records(OnlyDicts(p.items), 1)
    ELSE IF p.root = "dict"
    THEN IF p.ckey = "data" /\ p.clist
         THEN Records(OnlyDicts(p.items), 1)
         ELSE Records(<<SelfItem(p)>>, 1)
    ELSE FetchRaise("ValueError", 1)

\* the records the provider's fetch_vessels iterates over
ProviderRecords(prov, p, port_name) ==
    CASE prov.name = "open_file" -> OpenAisFileProvider_iter_records(prov, p)
      [] prov.name = "open_http" -> OpenAisApiProvider_records(prov, p)
      [] prov.name = "aishub" -> AisHubApiProvider_records(prov, p, port_name)
      [] OTHER -> MarineTrafficApiProvider_records(prov, p)

\* provider.fetch_vessels(port_name): the exception raised before the loop,
\* or the outcome of the loop over the records
fetch_vessels(prov, p, port_name, t) ==
    CHOOSE f \in UNION
        { IF got.e # "ok"
          THEN { [out |-> got.e, vessels |-> <<>>, requests |-> got.requests] }
          ELSE { [out |-> c.out, vessels |-> c.vessels, requests |-> got.requests] :
                 c \in {Collect(got.records, <<>>, port_name, t)} } :
          got \in {ProviderRecords(prov, p, port_name)} } : TRUE

(***************************************************************************)
(* The on-disk cache of data_providers/utils.py.                           *)
(*                                                                         *)
(* The cache directory is a function from file names to file contents. A   *)
(* file written by store_cached_payload holds the JSON text of the payload *)
(* object, modelled as [kind |-> "object", obj |-> payload]. Time is       *)
(* datetime.utcnow() in whole minutes.                                     *)
(***************************************************************************)
\* str.replace("/", "_")
ReplaceSlash(chars) == [i \in 1..Len(chars) |-> IF chars[i] = "/" THEN "_" ELSE chars[i]]

RECURSIVE NatChars(_)
\* str(n) for n >= 0
NatChars(n) ==
    IF n < 10 THEN <<CHOOSE c \in Digits : DigitVal(c) = n>>
    ELSE NatChars(n \div 10) \o <<CHOOSE c \in Digits : DigitVal(c) = n % 10>>

\* str(n)
IntChars(n) == IF n < 0 THEN <<"-">> \o NatChars(0 - n) ELSE NatChars(n)

\* cache_file_path(provider, port_name, radius): the file name in CACHE_DIR
cache_file_path(prov, port_name, radius) ==
    ReplaceSlash(prov) \o <<"_", "_">> \o ReplaceSlash(port_name) \o <<"_", "_">>
        \o IntChars(radius) \o <<".", "j", "s", "o", "n">>

\* datetime.isoformat() and datetime.fromisoformat() on clock readings
isoformat(minutes) == [ty |-> "str", iso |-> TRUE, t |-> minutes]

fromisoformat(text) ==
    IF text.iso THEN [e |-> "ok", t |-> text.t] ELSE [e |-> "ValueError", t |-> 0]

\* json.dumps(payload) and json.loads(text)
json_dumps(obj) == [kind |-> "object", obj |-> <<obj>>]

json_loads(content) ==
    IF content.kind = "object" THEN [e |-> "ok", kind |-> "dict", obj |-> content.obj]
    ELSE IF content.kind = "array" THEN [e |-> "ok", kind |-> "list", obj |-> <<>>]
    ELSE [e |-> "JSONDecodeError", kind |-> "", obj |-> <<>>]

\* an Optional[int]
NoneInt == [some |-> FALSE, v |-> 0]
SomeInt(i) == [some |-> TRUE, v |-> i]

\* The results of load_cached_payload: None, the payload, or an exception.
CacheMiss == [out |-> "none", payload |-> <<>>]
CacheHit(obj) == [out |-> "payload", payload |-> <<obj>>]
CacheRaise(exc) == [out |-> exc, payload |-> <<>>]

\* load_cached_payload with the age test off by one: an entry exactly
\* max_age_minutes old already counts as expired
load_expiring_early(fs, prov, port_name, radius, max_age_minutes, utcnow) ==
    LET cache_path == cache_file_path(prov, port_name, radius)
        obj == json_loads(fs[cache_path]).obj[1]
    IN  IF cache_path \notin DOMAIN fs THEN CacheMiss
        ELSE IF max_age_minutes.some /\ obj.timestamp.t <= utcnow - max_age_minutes.v
        THEN CacheMiss
        ELSE CacheHit(obj)

\* load_cached_payload(provider, port_name, radius, max_age_minutes=...),
\* with fs the cache directory and utcnow the value of datetime.utcnow()
load_cached_payload(fs, prov, port_name, radius, max_age_minutes, utcnow) ==
    LET cache_path == cache_file_path(prov, port_name, radius)
        parsed == json_loads(fs[cache_path])
        obj == parsed.obj[1]
        cached_at == fromisoformat(obj.timestamp)
    IN  IF cache_path \notin DOMAIN fs THEN CacheMiss
        ELSE IF parsed.e # "ok" THEN CacheMiss
        ELSE IF parsed.kind # "dict" THEN CacheRaise("AttributeError")
        ELSE IF obj.timestamp.ty # "str" THEN CacheMiss
        ELSE IF cached_at.e # "ok" THEN CacheMiss
        ELSE IF max_age_minutes.some /\ cached_at.t < utcnow - max_age_minutes.v
        THEN CacheMiss
        ELSE CacheHit(obj)

\* store_cached_payload(provider, port_name, radius, vessels): the cache
\* directory afterwards
store_cached_payload(fs, prov, port_name, radius, vessels, utcnow) ==
    LET cache_path == cache_file_path(prov, port_name, radius)
        obj == [provider |-> prov, port |-> port_name, radius |-> radius,
                timestamp |-> isoformat(utcnow), vessels |-> vessels]
    IN  [f \in DOMAIN fs \cup {cache_path} |->
            IF f = cache_path THEN json_dumps(obj) ELSE fs[f]]

DefaultTtl == 5

\* cache_ttl_minutes(), with env the value of DATA_CACHE_TTL_MINUTES (None
\* when unset): int(env) when that is a positive integer, else 5
cache_ttl_minutes(env) ==
    LET txt == Strip(env.s)
        neg == Len(txt) > 0 /\ txt[1] = "-"
        body == IF Len(txt) > 0 /\ txt[1] \in {"-", "+"} THEN Tail(txt) ELSE txt
        ttl == IF neg THEN 0 - DecVal(body) ELSE DecVal(body)
    IN  IF env.ty = "none" \/ Len(env.s) = 0 THEN DefaultTtl
        ELSE IF Len(body) = 0 \/ ~IsDigits(body) THEN DefaultTtl
        ELSE IF ttl > 0 THEN ttl ELSE DefaultTtl

(***************************************************************************)
(* MarineTrafficClient (marine_traffic_client.py)                          *)
(***************************************************************************)
\* the keyword arguments MarineTrafficClient.__init__ accepts besides api_key
InitKeywords == {}

\* MarineTrafficClient(api_key, **keywords): the object, or the TypeError
\* Python raises for a keyword argument the signature does not have
MarineTrafficClient_init(keywords) ==
    IF keywords \subseteq InitKeywords THEN "client" ELSE "TypeError"

SampleStatuses == {"Under way using engine", "At anchor", "Moored"}

\* _generate_sample_vessels(port_name): num_vessels vessels bound for
\* port_name; draw and status stand for the random draws, shared by the
\* vessels of one call
_generate_sample_vessels(port_name, num_vessels, draw, status) ==
    [i \in 1..num_vessels |->
        [mmsi |-> 200000000 + draw * 100 + (i - 1),
         destination |-> port_name,
         status |-> status]]

\* the outputs _generate_sample_vessels(port_name) can have
SampleOutputs(port_name) ==
    { _generate_sample_vessels(port_name, n, draw, status) :
        n \in 3..8, draw \in {1000, 9999}, status \in SampleStatuses }

\* get_vessels_in_port_area(port_name, radius): every path of the method
\* returns _generate_sample_vessels(port_name); the cache directory and the
\* providers are not consulted
get_vessels_in_port_area(port_name, radius, sample) ==
    IF port_name \notin KnownPorts THEN [out |-> "ok", vessels |-> sample]
    ELSE [out |-> "ok", vessels |-> sample]

(***************************************************************************)
(* The inputs of the model: port names, raw field values, clock readings.  *)
(***************************************************************************)
Ports == {Naples}

Clocks == {DateTime(2024, 5, 1, 10, 30, 0), DateTime(2024, 12, 31, 23, 30, 0)}

IdValues ==
    { PyStr(<<"1", "2", "3">>), PyStr(<<"a", "b", "c">>), PyStr(<<"0">>),
      PyStr(<<>>), PyInt(0), PyInt(7), PyStr(<<"i", "n", "f">>), PyNaN,
      PyStr(<<"1", "2", ".", "7">>), PyHugeInt }

SpeedValues ==
    { PyFloat(-55), PyFloat(127), PyStr(<<"f", "a", "s", "t">>), PyNaN }

CourseValues ==
    { PyInt(400), PyFloat(3596), PyInt(-10), PyInt(90),
      PyStr(<<"n", "a", "n">>), PyInf }

EtaValues ==
    { PyStr(<<"2","0","2","4","-","0","5","-","0","1"," ","1","2",":","0","0">>),
      PyStr(<<"0","2","-","3","0"," ","1","0",":","0","0">>),
      PyStr(<<"1","3","-","0","1"," ","1","0",":","0","0">>),
      PyStr(<<"1", "2", "9", "9">>), PyStr(<<"1", "2", "3", "0">>),
      PyStr(<<"9", "3", "0">>), PyStr(<<"s", "o", "o", "n">>),
      PyInt(2), PyFloat(-15), PyNaN }

SizeValues == { PyInt(200), PyStr(<<"l", "o", "n", "g">>), PyInf }

FieldValues(key) ==
    CASE key \in {"mmsi", "MMSI"} -> IdValues
      [] key \in {"speed", "SOG"} -> SpeedValues
      [] key \in {"course", "COG"} -> CourseValues
      [] key \in {"eta", "ETA"} -> EtaValues
      [] key \in {"length", "width"} -> SizeValues
      [] key \in {"dim_a", "dim_b"} -> {PyInt(100), PyHugeInt}
      [] key \in {"draught", "LAT"} -> {PyFloat(75), PyStr(<<"x">>)}
      [] key \in {"destination", "DESTINATION"} -> {PyStr(Rome), PyStr(<<>>)}
      [] OTHER -> {PyNone}

RawKeys ==
    { "mmsi", "MMSI", "speed", "SOG", "course", "COG", "eta", "ETA", "length",
      "width", "dim_a", "dim_b", "draught", "LAT", "destination", "DESTINATION" }

\* the largest number of keys of a raw record
MaxFields == 2

EmptyDict == [k \in {} |-> PyNone]

NotRun == [out |-> "not run", at |-> "", vessel |-> <<>>]

(***************************************************************************)
(* The normalizer on its own: a caller builds a raw record key by key and  *)
(* hands it to normalize_ais_record.                                       *)
(***************************************************************************)
NoProvider == [name |-> "none", api_key |-> "", suffix |-> ""]

NoPayload ==
    [root |-> "none", ckey |-> "none", clist |-> FALSE, err |-> PyNone,
     status |-> PyNone, self |-> EmptyDict, items |-> <<>>]

NotFetched == [out |-> "not run", vessels |-> <<>>, requests |-> 0]

IdleFetch ==
    /\ provider = NoProvider
    /\ payload = NoPayload
    /\ fetched = NotFetched

NoFiles == [f \in {} |-> json_dumps(0)]

NothingStored == [n |-> 0, last |-> [k \in {} |-> 0]]

NotLoaded == [ran |-> FALSE, key |-> <<>>, max_age |-> NoneInt, res |-> CacheMiss]

IdleCache ==
    /\ clock = 0
    /\ files = NoFiles
    /\ stored = NothingStored
    /\ loaded = NotLoaded

NoRequest == [out |-> "not run", vessels |-> <<>>]

IdleClient ==
    /\ supplied = "none"
    /\ client = "none"
    /\ calls = 0
    /\ request = NoRequest

NoDisk == <<>>
NoWriters == <<>>

IdleWriters ==
    /\ disk = NoDisk
    /\ writers = NoWriters

\* ProviderRegistry.__init__: no provider is registered. providers is the
\* dict _providers (key -> metadata), by_name the dict _metadata_by_name as
\* the sequence of its items in insertion order, classes the keys of
\* _classes.
EmptyRegistry == [providers |-> <<>>, by_name |-> <<>>, classes |-> {}]
NoRegs == <<>>
NotFound == [op |-> "none"]

IdleRegistry ==
    /\ registry = EmptyRegistry
    /\ regs = NoRegs
    /\ found = NotFound

NoLocalTime == [tz |-> "none", t |-> 0]
NotPredicted == [ran |-> FALSE]
NoFleet == <<>>
NoBulk == [out |-> "not run", list |-> <<>>]
NoAnalysis == [op |-> "none"]

IdlePredictor ==
    /\ localtime = NoLocalTime
    /\ single = NotPredicted
    /\ fleet = NoFleet
    /\ bulk = NoBulk
    /\ analysis = NoAnalysis

NoRoster == <<>>
NotClustered == [op |-> "none"]

IdleClusterer ==
    /\ roster = NoRoster
    /\ clustered = NotClustered

NoMonitor == [made |-> "none"]
NoResults == [op |-> "none"]

IdleMonitor ==
    /\ installed = "none"
    /\ monitor = NoMonitor
    /\ results = NoResults

IdleRest ==
    /\ IdleWriters
    /\ IdleRegistry
    /\ IdlePredictor
    /\ IdleClusterer
    /\ IdleMonitor

IdleNorm ==
    /\ raw = EmptyDict
    /\ norm = NotRun

InitNorm ==
    /\ phase = "build"
    /\ now \in Clocks
    /\ dest \in Ports
    /\ IdleNorm
    /\ IdleFetch
    /\ IdleCache
    /\ IdleClient
    /\ IdleRest

\* raw[key] = value
SetField(key, value) ==
    /\ phase = "build"
    /\ key \in DOMAIN raw \/ Cardinality(DOMAIN raw) < MaxFields
    /\ raw' = [k \in DOMAIN raw \cup {key} |-> IF k = key THEN value ELSE raw[k]]
    /\ UNCHANGED <<phase, now, dest, norm, fetchVars, cacheVars, clientVars, restVars>>

\* normalize_ais_record(raw, dest)
Normalize ==
    /\ phase = "build"
    /\ norm' = normalize_ais_record(raw, dest, now)
    /\ phase' = "done"
    /\ UNCHANGED <<now, raw, dest, fetchVars, cacheVars, clientVars, restVars>>

NextNorm ==
    \/ \E key \in RawKeys : \E value \in FieldValues(key) : SetField(key, value)
    \/ Normalize

SpecNorm == InitNorm /\ [][NextNorm]_vars

(***************************************************************************)
(* A provider on its own: a response is put together element by element    *)
(* and the provider's fetch_vessels parses it.                             *)
(***************************************************************************)
Rec1(k, v) == [x \in {k} |-> v]
Rec2(k1, v1, k2, v2) == [x \in {k1, k2} |-> IF x = k1 THEN v1 ELSE v2]

GoodRecord == Rec1("MMSI", PyStr(<<"1", "2", "3">>))

Item(rec) == [isdict |-> TRUE, rec |-> rec]
NonDict == [isdict |-> FALSE, rec |-> EmptyDict]

BatchItems ==
    { Item(GoodRecord),
      Item(Rec2("mmsi", PyInt(7), "destination", PyStr(Rome))),
      Item(Rec1("speed", PyFloat(127))),
      Item(Rec1("MMSI", PyStr(<<"i", "n", "f">>))),
      Item(Rec2("mmsi", PyInt(7), "ETA", PyStr(<<"1", "2", "9", "9">>))),
      NonDict }

\* the largest number of elements of a payload
MaxBatch == 2

Secret == <<"s", "e", "c", "r", "e", "t">>
Demo == <<"d", "e", "m", "o">>
\* the refused key in another case
ShoutedKey == <<"D", "E", "M", "O", "_", "K", "e", "y">>

Provider(name, api_key, suffix) == [name |-> name, api_key |-> api_key, suffix |-> suffix]

ProviderConfigs ==
    { Provider("open_file", <<>>, "json"), Provider("open_file", <<>>, "csv"),
      Provider("open_file", <<>>, "txt"), Provider("open_http", <<>>, ""),
      Provider("aishub", <<>>, ""), Provider("commercial", Secret, ""),
      Provider("commercial", Demo, ""), Provider("commercial", RefusedKey, ""),
      Provider("commercial", ShoutedKey, "") }

StatusValues == {PyNone, PyStr(<<"O", "K">>), PyStr(<<"e", "r", "r", "o", "r">>)}

Payloads ==
    { [NoPayload EXCEPT !.root = r] : r \in {"neterr", "badjson", "list", "scalar"} }
    \cup
    { [root |-> "dict", ckey |-> c, clist |-> l, err |-> e, status |-> s,
       self |-> d, items |-> <<>>] :
        c \in {"none", "data", "results", "ais", "rows", "features"},
        l \in BOOLEAN,
        e \in {PyNone, PyStr(<<"b", "a", "d">>)},
        s \in StatusValues,
        d \in {EmptyDict, GoodRecord} }

\* whether the payload has a list that elements can be added to
HasList(p) == p.root = "list" \/ (p.root = "dict" /\ p.ckey # "none" /\ p.clist)

InitFetch ==
    /\ phase = "respond"
    /\ now = DateTime(2024, 5, 1, 10, 30, 0)
    /\ dest \in {Naples, Rome}
    /\ provider \in ProviderConfigs
    /\ payload \in {p \in Payloads : p.ckey = "none" => ~p.clist}
    /\ provider.suffix = "csv" => payload.root \in {"neterr", "list"}
    /\ fetched = NotFetched
    /\ IdleNorm
    /\ IdleCache
    /\ IdleClient
    /\ IdleRest

\* one more element in the payload's list (csv rows are always dicts)
AddItem(item) ==
    /\ phase = "respond"
    /\ HasList(payload)
    /\ Len(payload.items) < MaxBatch
    /\ provider.suffix = "csv" => item.isdict
    /\ payload' = [payload EXCEPT !.items = Append(@, item)]
    /\ UNCHANGED <<phase, now, dest, provider, fetched, normVars, cacheVars, clientVars, restVars>>

\* provider.fetch_vessels(dest)
Fetch ==
    /\ phase = "respond"
    /\ fetched' = fetch_vessels(provider, payload, dest, now)
    /\ phase' = "fetched"
    /\ UNCHANGED <<now, dest, provider, payload, normVars, cacheVars, clientVars, restVars>>

NextFetch ==
    \/ \E item \in BatchItems : AddItem(item)
    \/ Fetch

SpecFetch == InitFetch /\ [][NextFetch]_vars

(***************************************************************************)
(* The cache on its own: callers store and load entries while time passes. *)
(* `stored` is a history variable: the number of stores so far and, for    *)
(* every key whose file was last written by a store under that key, the    *)
(* time and the vessel list of that store.                                 *)
(***************************************************************************)
CacheKey(prov, port_name, radius) == <<prov, port_name, radius>>

PathOf(key) == cache_file_path(key[1], key[2], key[3])

CacheKeys ==
    { CacheKey(<<"p">>, port_name, 50) :
        port_name \in { <<"n">>, <<"_", "n">>, <<"/", "n">> } }

VesselLists == { <<>>, <<[mmsi |-> 9]>> }

\* the values of DATA_CACHE_TTL_MINUTES
TtlEnvValues == { PyNone, PyStr(<<"2">>), PyStr(<<"0">>), PyStr(<<"x">>) }

\* the max_age_minutes arguments of the model
MaxAges == {NoneInt} \cup { SomeInt(cache_ttl_minutes(env)) : env \in TtlEnvValues }

\* the last clock reading
MaxClock == 6

\* the largest number of store_cached_payload calls
MaxStores == 2

InitCache ==
    /\ phase = "cache"
    /\ now = DateTime(2024, 5, 1, 10, 30, 0)
    /\ dest = Naples
    /\ IdleNorm
    /\ IdleFetch
    /\ IdleCache
    /\ IdleClient
    /\ IdleRest

\* a minute passes
Tick ==
    /\ phase \in {"cache", "setup"}
    /\ clock < MaxClock
    /\ clock' = clock + 1
    /\ loaded' = NotLoaded
    /\ UNCHANGED <<phase, now, dest, files, stored, normVars, fetchVars, clientVars, restVars>>

\* store_cached_payload(key, vessels)
Store(key, vessels) ==
    /\ phase \in {"cache", "setup"}
    /\ stored.n < MaxStores
    /\ files' = store_cached_payload(files, key[1], key[2], key[3], vessels, clock)
    /\ stored' =
        [n |-> stored.n + 1,
         last |-> [k \in {key} \cup {j \in DOMAIN stored.last : PathOf(j) # PathOf(key)} |->
                     IF k = key THEN [t |-> clock, vessels |-> vessels]
                     ELSE stored.last[k]]]
    /\ loaded' = NotLoaded
    /\ UNCHANGED <<phase, now, dest, clock, normVars, fetchVars, clientVars, restVars>>

\* load_cached_payload(key, max_age_minutes=max_age)
Load(key, max_age) ==
    /\ phase = "cache"
    /\ loaded' = [ran |-> TRUE, key |-> key, max_age |-> max_age,
                  res |-> load_cached_payload(files, key[1], key[2], key[3], max_age, clock)]
    /\ UNCHANGED <<phase, now, dest, clock, files, stored, normVars, fetchVars, clientVars, restVars>>

NextCache ==
    \/ Tick
    \/ \E key \in CacheKeys : \E vessels \in VesselLists : Store(key, vessels)
    \/ \E key \in CacheKeys : \E max_age \in MaxAges : Load(key, max_age)

SpecCache == InitCache /\ [][NextCache]_vars

(***************************************************************************)
(* The cache directory with files that store_cached_payload did not write: *)
(* another program, or a crash, leaves a file of any content under a key's  *)
(* path, and callers keep storing and loading.                             *)
(***************************************************************************)
\* a timestamp member that is missing (payload.get gives None), a number,
\* or a string datetime.fromisoformat rejects
BadTimestamps ==
    { [ty |-> "none", iso |-> FALSE, t |-> 0],
      [ty |-> "int", iso |-> FALSE, t |-> 0],
      [ty |-> "str", iso |-> FALSE, t |-> 0] }

\* file contents that are no entry of the cache: text that is not JSON (or
\* a file that cannot be read), a JSON array, a JSON object with a bad
\* timestamp
ForeignContents ==
    { [kind |-> "garbage", obj |-> <<>>], [kind |-> "array", obj |-> <<>>] }
    \cup
    { json_dumps([provider |-> <<"p">>, port |-> <<"n">>, radius |-> 50,
                  timestamp |-> ts, vessels |-> <<>>]) : ts \in BadTimestamps }

\* the file of the key is replaced from outside the cache functions
Overwrite(key, content) ==
    /\ phase = "cache"
    /\ files' = [f \in DOMAIN files \cup {PathOf(key)} |->
                    IF f = PathOf(key) THEN content ELSE files[f]]
    /\ stored' = [stored EXCEPT
                    !.last = [k \in {j \in DOMAIN stored.last : PathOf(j) # PathOf(key)} |->
                                stored.last[k]]]
    /\ loaded' = NotLoaded
    /\ UNCHANGED <<phase, now, dest, clock, normVars, fetchVars, clientVars, restVars>>

NextDisk ==
    \/ NextCache
    \/ \E key \in CacheKeys : \E content \in ForeignContents : Overwrite(key, content)

SpecDisk == InitCache /\ [][NextDisk]_vars

(***************************************************************************)
(* Concurrent store_cached_payload calls. Path.write_text is               *)
(* open(path, "w") - which truncates the file -, one write of the text at  *)
(* the writer's own file offset, and close. A file is a sequence of        *)
(* tokens; every writer's offset is 0 after its open.                      *)
(***************************************************************************)
\* json.dumps(vessels) as tokens
VesselTokens(vessels) ==
    IF Len(vessels) = 0 THEN <<"[", "]">>
    ELSE <<"[", "{", "mmsi", ":">> \o NatChars(vessels[1].mmsi) \o <<"}", "]">>

\* json.dumps(payload) as tokens
PayloadText(prov, port_name, radius, vessels, utcnow) ==
    <<"{", "provider", ":">> \o prov \o <<",", "port", ":">> \o port_name
        \o <<",", "radius", ":">> \o IntChars(radius)
        \o <<",", "timestamp", ":">> \o NatChars(utcnow)
        \o <<",", "vessels", ":">> \o VesselTokens(vessels) \o <<"}">>

\* open(path, "w"): the file exists and is empty
OpenTruncate(fs, path) == [f \in DOMAIN fs \cup {path} |-> IF f = path THEN <<>> ELSE fs[f]]

\* write(text) at offset 0 of the open file: the text replaces the first
\* Len(text) tokens, what lies behind them stays
WriteAtStart(fs, path, text) ==
    [fs EXCEPT ![path] =
        text \o (IF Len(@) > Len(text) THEN SubSeq(@, Len(text) + 1, Len(@)) ELSE <<>>)]

WriterIds == {"w1", "w2"}

\* the text the writer's call writes
TextOf(w) ==
    PayloadText(writers[w].key[1], writers[w].key[2], writers[w].key[3],
                writers[w].vessels, clock)

InitWriters ==
    /\ phase = "writing"
    /\ now = DateTime(2024, 5, 1, 10, 30, 0)
    /\ dest = Naples
    /\ disk = NoDisk
    /\ writers \in [WriterIds -> [pc : {"called"}, key : CacheKeys, vessels : VesselLists]]
    /\ IdleRegistry
    /\ IdlePredictor
    /\ IdleClusterer
    /\ IdleMonitor
    /\ IdleNorm
    /\ IdleFetch
    /\ IdleCache
    /\ IdleClient

\* the writer's write_text opens the file
OpenFile(w) ==
    /\ phase = "writing"
    /\ writers[w].pc = "called"
    /\ disk' = OpenTruncate(disk, PathOf(writers[w].key))
    /\ writers' = [writers EXCEPT ![w].pc = "open"]
    /\ UNCHANGED <<phase, now, dest, normVars, fetchVars, cacheVars, clientVars, regVars, predVars, portVars>>

\* the writer's write_text writes the text and closes the file
WriteText(w) ==
    /\ phase = "writing"
    /\ writers[w].pc = "open"
    /\ disk' = WriteAtStart(disk, PathOf(writers[w].key), TextOf(w))
    /\ writers' = [writers EXCEPT ![w].pc = "returned"]
    /\ UNCHANGED <<phase, now, dest, normVars, fetchVars, cacheVars, clientVars, regVars, predVars, portVars>>

NextWriters ==
    \/ \E w \in WriterIds : OpenFile(w)
    \/ \E w \in WriterIds : WriteText(w)

SpecWriters == InitWriters /\ [][NextWriters]_vars

(***************************************************************************)
(* The provider registry (data_providers/registry.py). A class is modelled  *)
(* by its name; every class of the model defines provider_name, so         *)
(* register leaves the classes themselves unchanged.                       *)
(***************************************************************************)
ProviderMetadata(name, cls, aliases) == [name |-> name, cls |-> cls, aliases |-> aliases]

\* d[metadata.name] = metadata on a dict kept as the sequence of its values:
\* an existing key keeps its position, a new key goes to the end
DictSet(d, metadata) ==
    IF \E i \in 1..Len(d) : d[i].name = metadata.name
    THEN [i \in 1..Len(d) |-> IF d[i].name = metadata.name THEN metadata ELSE d[i]]
    ELSE Append(d, metadata)

\* register with every key of a registration going to the provider that
\* holds it already: the first registration of a key wins
register_keeping_first(reg, name, cls, aliases) ==
    LET normalized_name == Lower(name)
        metadata == ProviderMetadata(normalized_name, cls,
                                     [i \in 1..Len(aliases) |-> Lower(aliases[i])])
        keys == {normalized_name} \cup {metadata.aliases[i] : i \in 1..Len(aliases)}
    IN  [providers |-> [k \in DOMAIN reg.providers \cup keys |->
                            IF k \in DOMAIN reg.providers THEN reg.providers[k]
                            ELSE metadata],
         by_name |-> DictSet(reg.by_name, metadata),
         classes |-> reg.classes \cup {cls}]

\* ProviderRegistry.register(name, cls, aliases=aliases): the registry
\* afterwards
register(reg, name, cls, aliases) ==
    LET normalized_name == Lower(name)
        metadata == ProviderMetadata(normalized_name, cls,
                                     [i \in 1..Len(aliases) |-> Lower(aliases[i])])
        keys == {normalized_name} \cup {metadata.aliases[i] : i \in 1..Len(aliases)}
    IN  [providers |-> [k \in DOMAIN reg.providers \cup keys |->
                            IF k \in keys THEN metadata ELSE reg.providers[k]],
         by_name |-> DictSet(reg.by_name, metadata),
         classes |-> reg.classes \cup {cls}]

\* ProviderRegistry.get(name): the metadata, or KeyError
get(reg, name) ==
    LET normalized == Lower(name)
    IN  IF normalized \notin DOMAIN reg.providers
        THEN [e |-> "KeyError", meta |-> <<>>]
        ELSE [e |-> "ok", meta |-> <<reg.providers[normalized]>>]

\* Optional[VesselDataProvider]: None, or an instance of a class
NoInstance == [some |-> FALSE, cls |-> "", arg |-> <<>>]
Instance(cls, arg) == [some |-> TRUE, cls |-> cls, arg |-> arg]

\* (env.get(name) or "").strip()
EnvText(value) == Strip(PyOr(value, PyStr(<<>>)).s)

\* MarineTrafficApiProvider.from_env(env)
MarineTrafficApiProvider_from_env(env) ==
    IF Len(EnvText(env.MARINETRAFFIC_API_KEY)) = 0 THEN NoInstance
    ELSE Instance("MarineTrafficApiProvider", EnvText(env.MARINETRAFFIC_API_KEY))

\* AisHubApiProvider.from_env(env)
AisHubApiProvider_from_env(env) ==
    IF Len(EnvText(env.AIS_HUB_USERNAME)) = 0 THEN NoInstance
    ELSE Instance("AisHubApiProvider", EnvText(env.AIS_HUB_USERNAME))

\* cls.from_env(env); SampleDataProvider inherits VesselDataProvider.from_env,
\* which returns None
from_env(cls, env) ==
    CASE cls = "MarineTrafficApiProvider" -> MarineTrafficApiProvider_from_env(env)
      [] cls = "AisHubApiProvider" -> AisHubApiProvider_from_env(env)
      [] OTHER -> NoInstance

RECURSIVE PriorityLoop(_, _, _, _)
\* for name in priority: the metadata of the registered names, in order, and
\* the names and aliases seen
PriorityLoop(reg, priority, ordered, seen) ==
    IF Len(priority) = 0 THEN [ordered |-> ordered, seen |-> seen]
    ELSE LET g == get(reg, Head(priority))
         IN  IF g.e # "ok" THEN PriorityLoop(reg, Tail(priority), ordered, seen)
             ELSE PriorityLoop(reg, Tail(priority), Append(ordered, g.meta[1]),
                               seen \cup {g.meta[1].name}
                                    \cup {g.meta[1].aliases[i] :
                                            i \in 1..Len(g.meta[1].aliases)})

RECURSIVE FirstInstance(_, _)
\* for metadata in ordered: the first instance that is not None
FirstInstance(ordered, env) ==
    IF Len(ordered) = 0 THEN NoInstance
    ELSE IF from_env(Head(ordered).cls, env).some THEN from_env(Head(ordered).cls, env)
    ELSE FirstInstance(Tail(ordered), env)

\* ProviderRegistry.discover_from_env(env, priority=priority); an empty
\* priority stands for None as well
discover_from_env(reg, env, priority) ==
    LET named == PriorityLoop(reg, priority, <<>>, {})
        ordered == IF Len(priority) > 0
                   THEN named.ordered
                        \o SelectSeq(reg.by_name, LAMBDA m : m.name \notin named.seen)
                   ELSE reg.by_name
    IN  FirstInstance(ordered, env)

(***************************************************************************)
(* The registry in use: providers are registered, looked up and discovered. *)
(***************************************************************************)
RegNames == { <<"k">>, <<"K">>, <<"m">> }
AliasTuples == { <<>>, << <<"M">> >> }
Classes == {"MarineTrafficApiProvider", "AisHubApiProvider", "SampleDataProvider"}
LookupNames == { <<"k">>, <<"K">>, <<"m">>, <<"M">>, <<"d">> }
Priorities ==
    { <<>>, << <<"k">> >>, << <<"M">> >>, << <<"d">> >>,
      << <<"m">>, <<"k">> >>, << <<"d">>, <<"K">> >> }
Envs ==
    [MARINETRAFFIC_API_KEY : {PyNone, PyStr(<<" ">>), PyStr(<<"x">>)},
     AIS_HUB_USERNAME : {PyNone, PyStr(<<"x">>)}]

\* the largest number of register calls
MaxRegs == 2

InitRegistry ==
    /\ phase = "registry"
    /\ now = DateTime(2024, 5, 1, 10, 30, 0)
    /\ dest = Naples
    /\ IdleNorm
    /\ IdleFetch
    /\ IdleCache
    /\ IdleClient
    /\ IdleWriters
    /\ IdleRegistry
    /\ IdlePredictor
    /\ IdleClusterer
    /\ IdleMonitor

\* registry.register(name, cls, aliases=aliases)
Register(name, cls, aliases) ==
    /\ phase = "registry"
    /\ Len(regs) < MaxRegs
    /\ registry' = register(registry, name, cls, aliases)
    /\ regs' = Append(regs, [name |-> name, cls |-> cls, aliases |-> aliases])
    /\ found' = NotFound
    /\ UNCHANGED <<phase, now, dest, normVars, fetchVars, cacheVars, clientVars, writerVars, predVars, portVars>>

\* registry.get(name)
GetProvider(name) ==
    /\ phase = "registry"
    /\ found' = [op |-> "get", name |-> name, res |-> get(registry, name)]
    /\ UNCHANGED <<phase, now, dest, registry, regs, normVars, fetchVars, cacheVars,
                   clientVars, writerVars, predVars, portVars>>

\* registry.discover_from_env(env, priority=priority)
Discover(env, priority) ==
    /\ phase = "registry"
    /\ found' = [op |-> "discover", env |-> env, priority |-> priority,
                  res |-> discover_from_env(registry, env, priority)]
    /\ UNCHANGED <<phase, now, dest, registry, regs, normVars, fetchVars, cacheVars,
                   clientVars, writerVars, predVars, portVars>>

NextRegistry ==
    \/ \E name \in RegNames : \E cls \in Classes : \E aliases \in AliasTuples :
            Register(name, cls, aliases)
    \/ \E name \in LookupNames : GetProvider(name)
    \/ \E env \in Envs : \E priority \in Priorities : Discover(env, priority)

SpecRegistry == InitRegistry /\ [][NextRegistry]_vars

(***************************************************************************)
(* The client scenario of tests/test_client_fallback.py: the cache may be  *)
(* filled beforehand, the caller constructs the client, handing it a       *)
(* provider when it has one, and asks for the vessels of a port.           *)
(***************************************************************************)
Radius == 50

\* provider_name of the provider classes of the tests
ProviderName(kind) ==
    IF kind = "failing" THEN <<"f", "a", "i", "l", "i", "n", "g">>
    ELSE IF kind = "empty" THEN <<"e", "m", "p", "t", "y">>
    ELSE <<"s", "i", "m", "u", "l", "a", "t", "e", "d">>

RequestKey == CacheKey(ProviderName(supplied), dest, Radius)

InitClient ==
    /\ phase = "setup"
    /\ now = DateTime(2024, 5, 1, 10, 30, 0)
    /\ dest \in {Naples, Rome}
    /\ supplied \in {"none", "failing", "empty"}
    /\ client = "none"
    /\ calls = 0
    /\ request = NoRequest
    /\ IdleNorm
    /\ IdleFetch
    /\ IdleCache
    /\ IdleRest

\* client = MarineTrafficClient("demo"), or, when the caller has a provider,
\* client = MarineTrafficClient("demo", data_provider=provider)
Construct ==
    /\ phase = "setup"
    /\ LET made == MarineTrafficClient_init(IF supplied = "none" THEN {}
                                            ELSE {"data_provider"})
       IN  IF made = "client"
           THEN /\ client' = "client"
                /\ phase' = "ready"
                /\ request' = request
           ELSE /\ client' = client
                /\ phase' = "finished"
                /\ request' = [out |-> made, vessels |-> <<>>]
    /\ UNCHANGED <<now, dest, supplied, calls, normVars, fetchVars, cacheVars, restVars>>

\* vessels = client.get_vessels_in_port_area(dest)
GetVessels ==
    /\ phase = "ready"
    /\ \E sample \in SampleOutputs(dest) :
            request' = get_vessels_in_port_area(dest, Radius, sample)
    /\ phase' = "finished"
    /\ UNCHANGED <<now, dest, supplied, client, calls, normVars, fetchVars, cacheVars, restVars>>

NextClient ==
    \/ Tick
    \/ \E vessels \in VesselLists : Store(RequestKey, vessels)
    \/ Construct
    \/ GetVessels

SpecClient == InitClient /\ [][NextClient]_vars

(***************************************************************************)
(* The resilience layer (SpecClient)                                       *)
(***************************************************************************)
\* the cache holds no file for the key
NoEntry(key) == PathOf(key) \notin DOMAIN files

\* the cache holds an entry stored under the key less than the default TTL ago
FreshEntry(key) ==
    key \in DOMAIN stored.last /\ clock - stored.last[key].t < DefaultTtl

\* C1: with a supplied provider that always raises and no cache entry for
\* the key, get_vessels_in_port_area raises nothing, returns the simulated
\* output and has called the failing provider exactly once.
FallbackOnFailure ==
    (phase = "finished" /\ supplied = "failing" /\ NoEntry(RequestKey))
    => /\ request.out = "ok"
       /\ request.vessels \in SampleOutputs(dest)
       /\ calls = 1

\* C2: with a supplied provider that raises and a cache entry for the key
\* written less than TTL minutes ago, get_vessels_in_port_area returns the
\* cached vessel list and the supplied provider is not called.
CachedOnFailure ==
    (phase = "finished" /\ supplied = "failing" /\ FreshEntry(RequestKey))
    => /\ request.out = "ok"
       /\ request.vessels = stored.last[RequestKey].vessels
       /\ calls = 0

\* C3: when the supplied provider returns an empty list without raising and
\* the cache has no entry for the key, the caller receives the empty list.
EmptyListReturned ==
    (phase = "finished" /\ supplied = "empty" /\ NoEntry(RequestKey))
    => /\ request.out = "ok"
       /\ request.vessels = <<>>

\* C4: when every configured provider returns an empty list and the cache
\* has no fresh entry for the key, the caller receives the simulated
\* provider's output.
EmptyFallsThroughToSimulated ==
    (phase = "finished" /\ supplied = "empty" /\ ~FreshEntry(RequestKey))
    => /\ request.out = "ok"
       /\ request.vessels \in SampleOutputs(dest)

(***************************************************************************)
(* The normalizer (SpecNorm)                                               *)
(***************************************************************************)
\* the value parses to a non-zero integer
ParsesToNonZero(v) ==
    LET f == PyFloatOf(v)
    IN  f.e = "ok" /\ f.sp = "fin" /\ Trunc(f.n) # 0

\* the identifier the record resolves to is usable
ResolvableId(r) == ParsesToNonZero(PyOr(Get(r, "mmsi"), Get(r, "MMSI")))

\* C5: a raw record in which neither mmsi nor MMSI holds a value that parses
\* to a non-zero integer fails with the missing-identifier error.
MissingIdRejected ==
    (/\ phase = "done"
     /\ ~ParsesToNonZero(Get(raw, "mmsi"))
     /\ ~ParsesToNonZero(Get(raw, "MMSI")))
    => norm.out = "ValueError" /\ norm.at = "mmsi"

IdKeys == {"mmsi", "MMSI"}

\* C6: a raw record with a resolvable mmsi (and, besides the identifier,
\* only speed and course keys) normalizes to a vessel with speed >= 0 and
\* 0 <= course < 360, whatever speed and course it carries.
SpeedAndCourseInRange ==
    (/\ phase = "done"
     /\ ResolvableId(raw)
     /\ DOMAIN raw \subseteq IdKeys \cup {"speed", "SOG", "course", "COG"})
    => /\ norm.out = "vessel"
       /\ FNonNeg(norm.vessel[1].speed)
       /\ norm.vessel[1].course \in 0..359

\* C7: when at least one of the keys mmsi and MMSI holds a usable value (the
\* record has no other key), normalization succeeds and the vessel's mmsi is
\* a usable value of the record, whatever the other key contains.
EitherIdKeyAccepted ==
    (/\ phase = "done"
     /\ DOMAIN raw \subseteq IdKeys
     /\ \E k \in DOMAIN raw : ParsesToNonZero(raw[k]))
    => /\ norm.out = "vessel"
       /\ \E k \in DOMAIN raw :
            /\ ParsesToNonZero(raw[k])
            /\ norm.vessel[1].mmsi = Trunc(PyFloatOf(raw[k]).n)

\* the ETA value is in one of the recognised encodings: an hour offset, one
\* of the listed date formats, or a valid HHMM/HMM time of day
RecognisedEta(v) ==
    \/ v.ty \in {"int", "float", "bool"} /\ v.sp = "fin"
    \/ /\ v.ty = "str"
       /\ \/ \E i \in 1..Len(known_formats) : strptime(Strip(v.s), known_formats[i]).e = "ok"
          \/ LET txt == Strip(v.s)
             IN  /\ IsDigits(txt)
                 /\ Len(txt) \in {3, 4}
                 /\ DecVal(SubSeq(txt, 1, Len(txt) - 2)) \in 0..23
                 /\ DecVal(SubSeq(txt, Len(txt) - 1, Len(txt))) \in 0..59

\* float(value) fails
Malformed(v) == PyFloatOf(v).e # "ok"

\* the keys of the fields the claim C8 lists
BestEffortKeys ==
    { "speed", "SOG", "course", "COG", "draught", "length", "width", "LAT",
      "eta", "ETA" }

\* C8: a raw record with a resolvable mmsi and any values of speed, course,
\* draught, length, width, coordinates and ETA always normalizes to a
\* vessel; a malformed speed or course takes its default 0, and an ETA in
\* none of the recognised encodings is absent.
OtherFieldsBestEffort ==
    (/\ phase = "done"
     /\ ResolvableId(raw)
     /\ DOMAIN raw \subseteq IdKeys \cup BestEffortKeys)
    => LET speed == PyOr(PyOr(Get(raw, "speed"), Get(raw, "SOG")), Get(raw, "sog"))
           course == PyOr(PyOr(Get(raw, "course"), Get(raw, "COG")), Get(raw, "cog"))
           eta == PyOr(Get(raw, "eta"), Get(raw, "ETA"))
       IN  /\ norm.out = "vessel"
           /\ Malformed(speed) => norm.vessel[1].speed = Zero
           /\ Malformed(course) => norm.vessel[1].course = 0
           /\ ~RecognisedEta(eta) => norm.vessel[1].eta.k = "none"

(***************************************************************************)
(* The providers (SpecFetch)                                               *)
(***************************************************************************)
\* the response is a list of records that the provider can read
ReadableBatch ==
    /\ payload.root = "list"
    /\ provider.name = "open_file" => provider.suffix \in {"json", "csv"}
    /\ provider.name = "aishub" => dest \in KnownPorts
    /\ provider.name = "commercial" => Lower(provider.api_key) # RefusedKey

\* the records of the batch that have a resolvable mmsi, in input order
ResolvableRecords ==
    SelectSeq(payload.items, LAMBDA it : it.isdict /\ ResolvableId(it.rec))

\* the record names a destination
NamesDestination(r) == Truthy(PyOr(Get(r, "destination"), Get(r, "DESTINATION")))

DemoKeyRejectedBeforeRequest ==
    (phase = "fetched" /\ provider.name = "commercial" /\ provider.api_key = Demo)
    => /\ fetched.out = "ValueError"
       /\ fetched.requests = 0

\* C15 amended: a commercial provider constructed with the key "demo_key",
\* in any case, fails with ValueError, and the session's get is never
\* called.
PlaceholderKeyRejectedBeforeRequest ==
    (/\ phase = "fetched"
     /\ provider.name = "commercial"
     /\ provider.api_key \in {RefusedKey, ShoutedKey})
    => /\ fetched.out = "ValueError"
       /\ fetched.requests = 0

\* C15 witness: the key is the placeholder in another case, the service
\* would have answered with a list of records, and the fetch has failed
\* without a request.
PlaceholderKeyRejectedWitness ==
    /\ phase = "fetched"
    /\ provider.name = "commercial"
    /\ provider.api_key = ShoutedKey
    /\ payload.root = "list"
    /\ Len(payload.items) > 0
    /\ fetched.out = "ValueError"
    /\ fetched.requests = 0

\* the providers that get their records over HTTP
HttpBacked == {"open_http", "aishub", "commercial"}

\* C16: when an HTTP-backed provider's request succeeds with a payload whose
\* root is neither a list nor an object, fetch_vessels raises; it does not
\* return a list.
UnsupportedShapeRaises ==
    (/\ phase = "fetched"
     /\ provider.name \in HttpBacked
     /\ payload.root = "scalar"
     /\ fetched.requests = 1)
    => fetched.out # "ok"

(***************************************************************************)
(* The cache (SpecCache)                                                   *)
(***************************************************************************)
\* C10: after store_cached_payload(key, V), and while no later store has
\* written the key's file, load_cached_payload(key) with a max age of TTL
\* minutes returns a payload whose vessels equal V whenever the entry is not
\* older than TTL, and returns None whenever it is older.
CacheExpiry ==
    (loaded.ran /\ loaded.max_age.some /\ loaded.key \in DOMAIN stored.last)
    => LET entry == stored.last[loaded.key]
           age == clock - entry.t
       IN  IF age <= loaded.max_age.v
           THEN /\ loaded.res.out = "payload"
                /\ loaded.res.payload[1].vessels = entry.vessels
           ELSE loaded.res.out = "none"

\* C10 witness: an entry with vessels stored under the default TTL is loaded
\* when it is one minute older than the TTL, and is reported absent.
CacheExpiryWitness ==
    /\ loaded.ran
    /\ loaded.max_age = SomeInt(DefaultTtl)
    /\ loaded.key \in DOMAIN stored.last
    /\ stored.last[loaded.key].vessels # <<>>
    /\ clock - stored.last[loaded.key].t = DefaultTtl + 1
    /\ loaded.res.out = "none"

\* the file of the key is missing, or holds no well-formed cache entry
NoUsableEntry(key) ==
    \/ PathOf(key) \notin DOMAIN files
    \/ files[PathOf(key)].kind # "object"
    \/ files[PathOf(key)].obj[1].timestamp \in BadTimestamps

\* C11: load_cached_payload never raises: for a missing file, an unreadable
\* file, content that is no well-formed cache object, or a payload whose
\* timestamp is missing or unparseable, it returns None.
CorruptEntryIsAMiss ==
    (loaded.ran /\ NoUsableEntry(loaded.key)) => loaded.res.out = "none"

\* C12: concurrent store_cached_payload calls are last-writer-wins: once all
\* writers have returned, the file of every key that was written holds the
\* complete payload of one of the writers of that key, and a key that no
\* writer was given has no file.
LastWriterWins ==
    (\A w \in WriterIds : writers[w].pc = "returned")
    => \A key \in CacheKeys :
        LET of_key == {w \in WriterIds : writers[w].key = key}
        IN  IF of_key = {} THEN PathOf(key) \notin DOMAIN disk
            ELSE disk[PathOf(key)] \in {TextOf(w) : w \in of_key}

(***************************************************************************)
(* The registry (SpecRegistry)                                             *)
(***************************************************************************)
\* two keys are the same key when they differ in case only
SameKey(a, b) == Lower(a) = Lower(b)

\* the i-th register call listed the key as its name or as an alias
Listed(i, key) ==
    \/ SameKey(regs[i].name, key)
    \/ \E j \in 1..Len(regs[i].aliases) : SameKey(regs[i].aliases[j], key)

\* the metadata of the i-th register call
MetaOf(i) ==
    ProviderMetadata(Lower(regs[i].name), regs[i].cls,
                     [j \in 1..Len(regs[i].aliases) |-> Lower(regs[i].aliases[j])])

\* the most recent register call that listed the key
LastListing(key) ==
    CHOOSE i \in 1..Len(regs) :
        Listed(i, key) /\ \A j \in (i + 1)..Len(regs) : ~Listed(j, key)

\* C13: get(k) returns the metadata of the most recent registration that
\* listed k (in any case) as its name or as an alias, and fails with KeyError
\* for a key that no registration listed.
RegistryLastWriterWins ==
    found.op = "get"
    => IF \E i \in 1..Len(regs) : Listed(i, found.name)
       THEN /\ found.res.e = "ok"
            /\ found.res.meta[1] = MetaOf(LastListing(found.name))
       ELSE found.res.e = "KeyError"

\* C13 witness: a key listed by two registrations of different classes is
\* looked up in another case, and the class of the later one is returned.
RegistryLastWriterWinsWitness ==
    /\ found.op = "get"
    /\ Len(regs) = 2
    /\ Listed(1, found.name) /\ Listed(2, found.name)
    /\ regs[1].cls # regs[2].cls
    /\ found.name \notin {regs[1].name, regs[2].name}
    /\ found.res.e = "ok"
    /\ found.res.meta[1].cls = regs[2].cls

\* the register calls that introduced a name, in order: the registered
\* providers in registration order
Introductions ==
    SelectSeq([i \in 1..Len(regs) |-> i],
              LAMBDA i : \A j \in 1..(i - 1) : ~SameKey(regs[j].name, regs[i].name))

\* the provider registered under the name that the i-th call introduced
RegisteredAs(i) ==
    MetaOf(CHOOSE j \in 1..Len(regs) :
                /\ SameKey(regs[j].name, regs[i].name)
                /\ \A k \in (j + 1)..Len(regs) : ~SameKey(regs[k].name, regs[i].name))

\* the providers that the names of the priority list stand for, in order
NamedByPriority(priority) ==
    LET known == SelectSeq(priority, LAMBDA n : \E i \in 1..Len(regs) : Listed(i, n))
    IN  [i \in 1..Len(known) |-> MetaOf(LastListing(known[i]))]

\* the registered providers that the priority list did not name
Remaining(priority) ==
    LET named == NamedByPriority(priority)
        all == [i \in 1..Len(Introductions) |-> RegisteredAs(Introductions[i])]
    IN  SelectSeq(all, LAMBDA m : \A i \in 1..Len(named) : named[i].name # m.name)

\* C14: discover_from_env tries the providers named in priority in that
\* order, then every remaining registered provider in registration order,
\* and returns the instance of the first one whose from_env yields one; when
\* none does the result is None.
DiscoverTriesAllInOrder ==
    found.op = "discover"
    => LET tried == NamedByPriority(found.priority) \o Remaining(found.priority)
           yields == {i \in 1..Len(tried) : from_env(tried[i].cls, found.env).some}
       IN  IF yields = {} THEN found.res = NoInstance
           ELSE found.res
                  = from_env(tried[CHOOSE i \in yields : \A j \in yields : i <= j].cls,
                             found.env)

(***************************************************************************)
(* The arrival predictor (arrival_predictor.py)                            *)
(*                                                                         *)
(* A naive datetime is a number of ticks of three minutes since            *)
(* 0001-01-01T00:00 on the wall clock; a timedelta is a number of ticks.   *)
(* The correction factor and the confidence are in hundredths (1.45 is     *)
(* 145).  Every declared ETA of the model is a whole number of hours away  *)
(* from the reference time, so the corrected distance (hours times a       *)
(* multiple of 0.05) is a whole number of ticks.                           *)
(*                                                                         *)
(* The text of a timestamp is a record [ty, kind, t]: kind "naive" is the  *)
(* ISO text of the naive datetime t, "aware" the ISO text of wall time t   *)
(* followed by a UTC offset, "junk" any other non-empty text, "empty" the  *)
(* empty string; kind "num" is a non-zero int and "none" is None.          *)
(***************************************************************************)
TicksPerHour == 20
TicksPerDay == 24 * TicksPerHour
CScale == 100

RECURSIVE DaysBeforeMonth(_, _)
DaysBeforeMonth(y, mo) ==
    IF mo = 1 THEN 0 ELSE DaysBeforeMonth(y, mo - 1) + DaysInMonth(y, mo - 1)

DaysBeforeYear(y) ==
    (y - 1) * 365 + (y - 1) \div 4 - (y - 1) \div 100 + (y - 1) \div 400

\* datetime(y, mo, d, h, mi)
At(y, mo, d, h, mi) ==
    (DaysBeforeYear(y) + DaysBeforeMonth(y, mo) + d - 1) * TicksPerDay
        + h * TicksPerHour + (mi * TicksPerHour) \div 60

\* datetime.max, to the tick
DateMax == At(9999, 12, 31, 23, 57)

\* timedelta(hours=h)
Hours(h) == h * TicksPerHour

\* The machine's time zone: "utc" has no clock changes; in "cet" the clocks go
\* from 02:00 to 03:00 on 2024-03-31 (standard time is UTC+1).
Zones == {"utc", "cet"}
GapStart == At(2024, 3, 31, 2, 0)
EpochStart == At(1970, 1, 1, 0, 0)

\* the UTC offset the platform gives the naive wall time t (fold = 0: a time
\* inside the gap gets the offset in force before the change)
UtcOffset(tz, t) ==
    IF tz = "utc" THEN 0
    ELSE IF t < GapStart + Hours(1) THEN Hours(1) ELSE Hours(2)

\* naive_datetime.timestamp(), in ticks since 1970-01-01T00:00 UTC
datetime_timestamp(tz, t) == t - UtcOffset(tz, t) - EpochStart

\* datetime.fromtimestamp(e): the wall time of the instant e
datetime_fromtimestamp(tz, e) ==
    LET u == e + EpochStart
    IN  IF tz = "utc" THEN u
        ELSE IF u + Hours(1) < GapStart THEN u + Hours(1) ELSE u + Hours(2)

IsoText(t) == [ty |-> "str", kind |-> "naive", t |-> t]
AwareText(t) == [ty |-> "str", kind |-> "aware", t |-> t]
JunkText == [ty |-> "str", kind |-> "junk", t |-> 0]
EmptyText == [ty |-> "str", kind |-> "empty", t |-> 0]
NumberEta == [ty |-> "int", kind |-> "num", t |-> 5]
NoText == [ty |-> "none", kind |-> "none", t |-> 0]

\* bool(value) for the values above
TextTruthy(text) == text.kind \notin {"none", "empty"}

\* datetime.isoformat() of a datetime that is naive or aware
datetime_isoformat(aware, t) == IF aware THEN AwareText(t) ELSE IsoText(t)

\* datetime.fromisoformat(text)
datetime_fromisoformat(text) ==
    IF text.ty # "str" THEN [e |-> "TypeError", aware |-> FALSE, t |-> 0]
    ELSE IF text.kind \in {"naive", "aware"}
    THEN [e |-> "ok", aware |-> text.kind = "aware", t |-> text.t]
    ELSE [e |-> "ValueError", aware |-> FALSE, t |-> 0]

\* sub in s, for strings as sequences of characters
Contains(s, sub) ==
    \E i \in 0..(Len(s) - Len(sub)) : SubSeq(s, i + 1, i + Len(sub)) = sub

Anchor == <<"a", "n", "c", "h", "o", "r">>
Moored == <<"m", "o", "o", "r", "e", "d">>
UnderWay == <<"U", "n", "d", "e", "r", " ", "w", "a", "y">>

\* a number in tenths
AsTenths(v) == IF v.ty = "float" THEN v.n ELSE FScale * v.n

\* speed < bound and speed > bound, for a bound in tenths; every comparison
\* with nan is False
SpeedBelow(v, tenths) == v.sp = "-inf" \/ (v.sp = "fin" /\ AsTenths(v) < tenths)
SpeedAbove(v, tenths) == v.sp = "inf" \/ (v.sp = "fin" /\ AsTenths(v) > tenths)

\* hours * correction_factor for a distance in ticks and a factor in
\* hundredths, rounded down to the tick; the product is formed in two parts
\* to stay inside TLC's integers
Corrected(ticks, factor) ==
    (ticks \div CScale) * factor + ((ticks % CScale) * factor) \div CScale

PredictRaise(exc) == [e |-> exc, predicted |-> 0, confidence |-> 0, factor |-> 0]

\* predict_arrival_time with `elif 'moored'` written as a second `if`
predict_applying_both_status_rules(vessel, t_now) ==
    LET eta_declared == IF "eta" \in DOMAIN vessel THEN vessel["eta"] ELSE NoText
        parsed == datetime_fromisoformat(eta_declared)
        eta_dt == IF TextTruthy(eta_declared) /\ parsed.e = "ok"
                  THEN [aware |-> parsed.aware, t |-> parsed.t]
                  ELSE [aware |-> FALSE, t |-> t_now + Hours(24)]
        speed == IF "speed" \in DOMAIN vessel THEN vessel["speed"] ELSE PyFloat(120)
        status == IF "status" \in DOMAIN vessel THEN vessel["status"] ELSE PyStr(UnderWay)
        low == Lower(status.s)
        s1 == IF Contains(low, Anchor) THEN [f |-> 115, c |-> 75] ELSE [f |-> 100, c |-> 85]
        s2 == IF Contains(low, Moored) THEN [f |-> s1.f + 25, c |-> s1.c - 15] ELSE s1
        s3 == IF SpeedBelow(speed, 50) THEN [f |-> s2.f + 20, c |-> s2.c - 15]
              ELSE IF SpeedAbove(speed, 150) THEN [f |-> s2.f - 5, c |-> s2.c + 5]
              ELSE s2
        adjusted == Corrected(eta_dt.t - t_now, s3.f)
        delta == IF adjusted > 0 THEN adjusted ELSE 0
        clamped == IF s3.c < 0 THEN 0 ELSE IF s3.c > CScale THEN CScale ELSE s3.c
    IN  IF eta_dt.aware THEN PredictRaise("TypeError")
        ELSE IF delta > DateMax - t_now THEN PredictRaise("OverflowError")
        ELSE [e |-> "ok", predicted |-> t_now + delta, confidence |-> clamped,
              factor |-> s3.f]

\* ArrivalPredictor.predict_arrival_time(vessel, reference_time=t_now).  The
\* subtraction of a naive from an aware datetime raises TypeError; a sum
\* beyond datetime.max raises OverflowError.
predict_arrival_time(vessel, t_now) ==
    LET eta_declared == IF "eta" \in DOMAIN vessel THEN vessel["eta"] ELSE NoText
        parsed == datetime_fromisoformat(eta_declared)
        eta_dt == IF TextTruthy(eta_declared) /\ parsed.e = "ok"
                  THEN [aware |-> parsed.aware, t |-> parsed.t]
                  ELSE [aware |-> FALSE, t |-> t_now + Hours(24)]
        speed == IF "speed" \in DOMAIN vessel THEN vessel["speed"] ELSE PyFloat(120)
        status == IF "status" \in DOMAIN vessel THEN vessel["status"] ELSE PyStr(UnderWay)
        low == Lower(status.s)
        s1 == IF Contains(low, Anchor) THEN [f |-> 100 + 15, c |-> 85 - 10]
              ELSE IF Contains(low, Moored) THEN [f |-> 100 + 25, c |-> 85 - 15]
              ELSE [f |-> 100, c |-> 85]
        s2 == IF SpeedBelow(speed, 50) THEN [f |-> s1.f + 20, c |-> s1.c - 15]
              ELSE IF SpeedAbove(speed, 150) THEN [f |-> s1.f - 5, c |-> s1.c + 5]
              ELSE s1
        adjusted == Corrected(eta_dt.t - t_now, s2.f)
        delta == IF adjusted > 0 THEN adjusted ELSE 0
        clamped == IF s2.c < 0 THEN 0 ELSE IF s2.c > CScale THEN CScale ELSE s2.c
    IN  IF eta_dt.aware THEN PredictRaise("TypeError")
        ELSE IF delta > DateMax - t_now THEN PredictRaise("OverflowError")
        ELSE [e |-> "ok", predicted |-> t_now + delta, confidence |-> clamped,
              factor |-> s2.f]

\* round(ticks / TicksPerHour, 1), in tenths of an hour; a tie goes to the
\* even tenth
HoursRounded(ticks) ==
    LET scaled == ticks * FScale
        lo == scaled \div TicksPerHour
        r == scaled % TicksPerHour
    IN  IF 2 * r < TicksPerHour THEN lo
        ELSE IF 2 * r > TicksPerHour THEN lo + 1
        ELSE IF lo % 2 = 0 THEN lo ELSE lo + 1

\* the dict predict_bulk_arrivals appends for one vessel
Prediction(vessel, res, t_now, tz) ==
    [declared_eta |-> IF "eta" \in DOMAIN vessel THEN vessel["eta"] ELSE NoText,
     predicted_eta |-> datetime_isoformat(FALSE, res.predicted),
     predicted_eta_epoch |-> [ty |-> "float", n |-> datetime_timestamp(tz, res.predicted)],
     confidence |-> res.confidence,
     hours_to_arrival |-> HoursRounded(res.predicted - t_now)]

\* list.sort(key=lambda x: x['predicted_eta']): where the prediction goes in
\* the sorted list acc, after its equals; the ISO texts of naive datetimes
\* are ordered as the datetimes are
RECURSIVE InsertByEta(_, _)
InsertByEta(acc, pred) ==
    IF acc = <<>> THEN <<pred>>
    ELSE IF pred.predicted_eta.t < Head(acc).predicted_eta.t THEN <<pred>> \o acc
    ELSE <<Head(acc)>> \o InsertByEta(Tail(acc), pred)

RECURSIVE BulkLoop(_, _, _, _)
BulkLoop(vessels, acc, t_now, tz) ==
    IF vessels = <<>> THEN [out |-> "ok", list |-> acc]
    ELSE LET res == predict_arrival_time(Head(vessels), t_now)
         IN  IF res.e # "ok" THEN [out |-> res.e, list |-> <<>>]
             ELSE BulkLoop(Tail(vessels),
                           Append(acc, Prediction(Head(vessels), res, t_now, tz)),
                           t_now, tz)

RECURSIVE SortedByEta(_, _)
SortedByEta(list, acc) ==
    IF list = <<>> THEN acc
    ELSE SortedByEta(Tail(list), InsertByEta(acc, Head(list)))

\* ArrivalPredictor.predict_bulk_arrivals(vessels) at datetime.now() = t_now
predict_bulk_arrivals(vessels, t_now, tz) ==
    LET looped == BulkLoop(vessels, <<>>, t_now, tz)
    IN  IF looped.out # "ok" THEN looped
        ELSE [out |-> "ok", list |-> SortedByEta(looped.list, <<>>)]

\* window_start.strftime('%Y-%m-%d %H:00'): the date and the hour
strftime_hour(t) == t \div TicksPerHour

\* the arrival time calculate_arrival_windows reads from a prediction
ArrivalTime(pred, tz) ==
    IF pred.predicted_eta_epoch.ty # "none" /\ pred.predicted_eta_epoch.n # 0
    THEN [e |-> "ok", aware |-> FALSE,
          t |-> datetime_fromtimestamp(tz, pred.predicted_eta_epoch.n)]
    ELSE datetime_fromisoformat(pred.predicted_eta)

\* windows[window_key]['vessels'].append(...), creating the window first
AddToWindow(windows, key, start, end, entry) ==
    IF \E i \in 1..Len(windows) : windows[i].key = key
    THEN [i \in 1..Len(windows) |->
            IF windows[i].key = key
            THEN [windows[i] EXCEPT !.vessels = Append(@, entry)]
            ELSE windows[i]]
    ELSE Append(windows, [key |-> key, start |-> start, end |-> end,
                          vessels |-> <<entry>>])

\* ArrivalPredictor.calculate_arrival_windows(predictions, window_hours): the
\* windows in the order of their creation.  Whatever the body of the loop
\* raises makes it go on with the next prediction.
RECURSIVE calculate_arrival_windows(_, _, _, _)
calculate_arrival_windows(predictions, window_hours, tz, windows) ==
    IF predictions = <<>> THEN windows
    ELSE LET pred == Head(predictions)
             arrival == ArrivalTime(pred, tz)
             on_hour == arrival.t - (arrival.t % TicksPerHour)
             hour == (on_hour \div TicksPerHour) % 24
             window_start == on_hour - Hours(hour % window_hours)
         IN  calculate_arrival_windows(
                 Tail(predictions), window_hours, tz,
                 IF arrival.e # "ok" \/ window_hours = 0 THEN windows
                 ELSE AddToWindow(windows, strftime_hour(window_start),
                                  datetime_isoformat(arrival.aware, window_start),
                                  datetime_isoformat(arrival.aware,
                                                     window_start + Hours(window_hours)),
                                  [eta |-> pred.predicted_eta,
                                   confidence |-> pred.confidence]))

\* the ETA generate_time_series_projection reads from a prediction: "skip"
\* when the loop goes on without it
ProjectedEta(pred, t_now) ==
    LET eta_value == IF TextTruthy(pred.predicted_eta) THEN pred.predicted_eta
                     ELSE pred.declared_eta
        eta_dt == datetime_fromisoformat(eta_value)
    IN  IF ~TextTruthy(eta_value) \/ eta_dt.e # "ok" THEN [e |-> "skip", t |-> 0]
        ELSE IF eta_dt.aware THEN [e |-> "TypeError", t |-> 0]
        ELSE IF eta_dt.t < t_now THEN [e |-> "skip", t |-> 0]
        ELSE [e |-> "ok", t |-> eta_dt.t]

RECURSIVE Arrivals(_, _, _)
Arrivals(predictions, t_now, acc) ==
    IF predictions = <<>> THEN [e |-> "ok", list |-> acc]
    ELSE LET eta == ProjectedEta(Head(predictions), t_now)
         IN  IF eta.e = "TypeError" THEN [e |-> "TypeError", list |-> <<>>]
             ELSE Arrivals(Tail(predictions), t_now,
                           IF eta.e = "ok" THEN Append(acc, eta.t) ELSE acc)

\* arrivals.sort()
RECURSIVE InsertTime(_, _)
InsertTime(acc, t) ==
    IF acc = <<>> THEN <<t>>
    ELSE IF t < Head(acc) THEN <<t>> \o acc
    ELSE <<Head(acc)>> \o InsertTime(Tail(acc), t)

RECURSIVE SortedTimes(_, _)
SortedTimes(list, acc) ==
    IF list = <<>> THEN acc ELSE SortedTimes(Tail(list), InsertTime(acc, Head(list)))

\* the count with the window closed at its end
CountIn_closed_window(arrivals, window_start, window_end) ==
    Cardinality({k \in 1..Len(arrivals) :
                    window_start <= arrivals[k] /\ arrivals[k] <= window_end})

\* sum(1 for eta in arrivals if window_start <= eta < window_end)
CountIn(arrivals, window_start, window_end) ==
    Cardinality({k \in 1..Len(arrivals) :
                    window_start <= arrivals[k] /\ arrivals[k] < window_end})

RECURSIVE Buckets(_, _, _, _, _, _)
Buckets(index, bucket_count, arrivals, t_now, interval_hours, acc) ==
    IF index >= bucket_count THEN acc
    ELSE LET window_start == t_now + Hours(index * interval_hours)
             window_end == window_start + Hours(interval_hours)
             count == CountIn(arrivals, window_start, window_end)
             cumulative == IF acc = <<>> THEN count
                           ELSE acc[Len(acc)].cumulative_expected + count
         IN  Buckets(index + 1, bucket_count, arrivals, t_now, interval_hours,
                     Append(acc, [window_start |-> IsoText(window_start),
                                  window_end |-> IsoText(window_end),
                                  expected_arrivals |-> count,
                                  cumulative_expected |-> cumulative]))

\* the sums of counts and of x * counts, x = 0, 1, ... from bucket i on
RECURSIVE SumCounts(_, _)
SumCounts(buckets, i) ==
    IF i > Len(buckets) THEN 0
    ELSE buckets[i].expected_arrivals + SumCounts(buckets, i + 1)

RECURSIVE SumIndexed(_, _)
SumIndexed(buckets, i) ==
    IF i > Len(buckets) THEN 0
    ELSE (i - 1) * buckets[i].expected_arrivals + SumIndexed(buckets, i + 1)

\* the sign of the slope np.polyfit(x, counts, 1) fits to the counts
SlopeSign(buckets) ==
    LET n == Len(buckets)
        sxy == 2 * n * SumIndexed(buckets, 1) - n * (n - 1) * SumCounts(buckets, 1)
    IN  IF sxy > 0 THEN "Trend crescente"
        ELSE IF sxy < 0 THEN "Trend decrescente" ELSE "Trend stabile"

\* The least-squares line through the points (x, counts[x]), x = 0 .. n - 1:
\* slope = num / den and the value at x is at(x) / (n * den), with den > 0
\* for n >= 2.
LineFit(buckets) ==
    LET n == Len(buckets)
        sx == (n * (n - 1)) \div 2
        sxx == ((n - 1) * n * (2 * n - 1)) \div 6
        sy == SumCounts(buckets, 1)
        num == n * SumIndexed(buckets, 1) - sx * sy
        den == n * sxx - sx * sx
    IN  [num |-> num, den |-> n * den,
         at |-> [x \in 0..(n - 1) |-> sy * den + num * (n * x - sx)]]

\* float(estimate), without the max(..., 0.0)
TrendEstimate_unclamped(buckets, idx) ==
    LET fit == LineFit(buckets)
    IN  [num |-> fit.at[idx], den |-> fit.den]

\* buckets[idx]['trend_estimate'] = max(float(estimate), 0.0), as a fraction
TrendEstimate(buckets, idx) ==
    LET fit == LineFit(buckets)
    IN  [num |-> IF fit.at[idx] > 0 THEN fit.at[idx] ELSE 0, den |-> fit.den]

\* len(counts) >= 2 and counts.any()
HasTrend(buckets) ==
    /\ Len(buckets) >= 2
    /\ \E k \in 1..Len(buckets) : buckets[k].expected_arrivals # 0

\* the buckets after the trend block: each carries its trend_estimate when a
\* line was fitted
WithTrend(buckets) ==
    IF HasTrend(buckets)
    THEN [k \in 1..Len(buckets) |->
            [window_start |-> buckets[k].window_start,
             window_end |-> buckets[k].window_end,
             expected_arrivals |-> buckets[k].expected_arrivals,
             cumulative_expected |-> buckets[k].cumulative_expected,
             trend_estimate |-> TrendEstimate(buckets, k - 1)]]
    ELSE buckets

\* generate_time_series_projection counting with np.floor for np.ceil
projection_with_floor(predictions, t_now, horizon_hours, interval_hours) ==
    IF horizon_hours <= 0 \/ interval_hours <= 0
    THEN [out |-> "ValueError", generated_at |-> t_now, buckets |-> <<>>,
          trendline |-> "none"]
    ELSE LET floor == horizon_hours \div interval_hours
             bucket_count == IF floor > 1 THEN floor ELSE 1
             arrivals == Arrivals(predictions, t_now, <<>>)
             buckets == Buckets(0, bucket_count, SortedTimes(arrivals.list, <<>>),
                                t_now, interval_hours, <<>>)
         IN  IF arrivals.e # "ok"
             THEN [out |-> arrivals.e, generated_at |-> t_now, buckets |-> <<>>,
                   trendline |-> "none"]
             ELSE [out |-> "ok", generated_at |-> t_now, buckets |-> WithTrend(buckets),
                   trendline |-> IF HasTrend(buckets) THEN SlopeSign(buckets) ELSE "none"]

\* ArrivalPredictor.generate_time_series_projection(predictions,
\* horizon_hours=..., interval_hours=...) at datetime.now() = t_now.  The
\* comparison of an aware ETA with the naive now raises TypeError.  The
\* trend line is its description: the values of slope and intercept are left
\* out, the trend estimates are fractions.
generate_time_series_projection(predictions, t_now, horizon_hours, interval_hours) ==
    IF horizon_hours <= 0 \/ interval_hours <= 0
    THEN [out |-> "ValueError", generated_at |-> t_now, buckets |-> <<>>,
          trendline |-> "none"]
    ELSE LET ceil == (horizon_hours + interval_hours - 1) \div interval_hours
             bucket_count == IF ceil > 1 THEN ceil ELSE 1
             arrivals == Arrivals(predictions, t_now, <<>>)
             buckets == Buckets(0, bucket_count, SortedTimes(arrivals.list, <<>>),
                                t_now, interval_hours, <<>>)
         IN  IF arrivals.e # "ok"
             THEN [out |-> arrivals.e, generated_at |-> t_now, buckets |-> <<>>,
                   trendline |-> "none"]
             ELSE [out |-> "ok", generated_at |-> t_now, buckets |-> WithTrend(buckets),
                   trendline |-> IF HasTrend(buckets) THEN SlopeSign(buckets) ELSE "none"]

(***************************************************************************)
(* The predictor in use (SpecPredict): a caller either asks for one        *)
(* vessel's prediction, or hands a list of vessels to                      *)
(* predict_bulk_arrivals, may append predictions of its own to the list,   *)
(* and asks for the arrival windows and the projection of the list.        *)
(***************************************************************************)
MaxFleet == 2

PredictorClocks == {At(2024, 3, 30, 2, 30), At(2024, 5, 1, 10, 30)}

Absent == [ty |-> "absent"]

\* the dict with the keys whose value is given
VesselDict(eta, speed, status) ==
    LET given == [eta |-> eta, speed |-> speed, status |-> status]
    IN  [k \in {key \in DOMAIN given : given[key] # Absent} |-> given[k]]

EtaTexts(t) ==
    {Absent, NoText, EmptyText, JunkText, NumberEta,
     IsoText(t - Hours(48)), IsoText(t + Hours(5)), IsoText(t + Hours(24)),
     IsoText(At(9999, 12, 31, 23, 30)), AwareText(t + Hours(24))}

Speeds ==
    {Absent, PyFloat(20), PyFloat(49), PyFloat(50), PyFloat(150), PyFloat(151),
     PyNaN, PyInf, PyInt(3)}

AtAnchor == <<"A", "t", " ", "A", "n", "c", "h", "o", "r">>
MooredLoud == <<"M", "O", "O", "R", "E", "D">>
MooredAtAnchor ==
    <<"M", "o", "o", "r", "e", "d", " ", "a", "t", " ", "a", "n", "c", "h", "o", "r">>

Statuses == {Absent, PyStr(AtAnchor), PyStr(MooredLoud), PyStr(MooredAtAnchor), PyStr(UnderWay)}

Vessels(t) ==
    { VesselDict(eta, speed, status) :
        eta \in EtaTexts(t), speed \in Speeds, status \in Statuses }

\* the vessels of the lists handed to predict_bulk_arrivals
FleetVessels(t) ==
    { VesselDict(Absent, PyFloat(120), PyStr(UnderWay)),
      VesselDict(IsoText(t + Hours(5)), PyFloat(20), PyStr(MooredLoud)),
      VesselDict(IsoText(t + Hours(5)), PyFloat(151), Absent),
      VesselDict(IsoText(t - Hours(48)), PyFloat(120), PyStr(AtAnchor)),
      VesselDict(AwareText(t + Hours(24)), PyFloat(120), PyStr(UnderWay)),
      VesselDict(IsoText(At(9999, 12, 31, 23, 30)), PyFloat(120), PyStr(AtAnchor)) }

\* predictions a caller writes itself: no epoch and an ISO text, a zero
\* epoch, texts that are no timestamp, an ETA with a UTC offset
NoEpoch == [ty |-> "none", n |-> 0]
ZeroEpoch == [ty |-> "float", n |-> 0]

OwnPrediction(text, epoch) ==
    [declared_eta |-> NoText, predicted_eta |-> text, predicted_eta_epoch |-> epoch,
     confidence |-> 85, hours_to_arrival |-> 0]

HandBuilt(t) ==
    { OwnPrediction(IsoText(t + Hours(7) + 10), NoEpoch),
      OwnPrediction(IsoText(t + Hours(7) + 10), ZeroEpoch),
      OwnPrediction(JunkText, NoEpoch),
      OwnPrediction(NoText, NoEpoch),
      OwnPrediction(AwareText(t + Hours(7)), NoEpoch) }

WindowSizes == {0, 1, 3, 5, 6}
Horizons == {<<48, 6>>, <<6, 4>>, <<0, 6>>, <<6, 0>>}
Delays == {0, Hours(6)}

InitPredict ==
    /\ phase = "predictor"
    /\ now = DateTime(2024, 5, 1, 10, 30, 0)
    /\ dest = Naples
    /\ localtime \in [tz : Zones, t : PredictorClocks]
    /\ single = NotPredicted
    /\ fleet = NoFleet
    /\ bulk = NoBulk
    /\ analysis = NoAnalysis
    /\ IdleNorm
    /\ IdleFetch
    /\ IdleCache
    /\ IdleClient
    /\ IdleWriters
    /\ IdleRegistry
    /\ IdleClusterer
    /\ IdleMonitor

otherVars == <<now, dest, normVars, fetchVars, cacheVars, clientVars, writerVars, regVars,
               portVars>>

\* predictor.predict_arrival_time(vessel, reference_time=now)
PredictOne(vessel) ==
    /\ phase = "predictor"
    /\ fleet = NoFleet
    /\ phase' = "one"
    /\ single' = [ran |-> TRUE, vessel |-> vessel,
                  res |-> predict_arrival_time(vessel, localtime.t)]
    /\ UNCHANGED <<localtime, fleet, bulk, analysis, otherVars>>

\* the caller puts one more vessel on the list
AddVessel(vessel) ==
    /\ phase = "predictor"
    /\ Len(fleet) < MaxFleet
    /\ fleet' = Append(fleet, vessel)
    /\ UNCHANGED <<phase, localtime, single, bulk, analysis, otherVars>>

\* predictions = predictor.predict_bulk_arrivals(vessels)
PredictBulk ==
    /\ phase = "predictor"
    /\ phase' = "predicted"
    /\ bulk' = predict_bulk_arrivals(fleet, localtime.t, localtime.tz)
    /\ UNCHANGED <<localtime, single, fleet, analysis, otherVars>>

\* predictions.append(pred)
AddPrediction(pred) ==
    /\ phase = "predicted"
    /\ bulk.out = "ok"
    /\ Len(bulk.list) <= MaxFleet
    /\ bulk' = [bulk EXCEPT !.list = Append(@, pred)]
    /\ UNCHANGED <<phase, localtime, single, fleet, analysis, otherVars>>

\* predictor.calculate_arrival_windows(predictions, window_hours)
ArrivalWindows(window_hours) ==
    /\ phase = "predicted"
    /\ bulk.out = "ok"
    /\ phase' = "analysed"
    /\ analysis' = [op |-> "windows", window_hours |-> window_hours,
                    windows |-> calculate_arrival_windows(bulk.list, window_hours,
                                                          localtime.tz, <<>>)]
    /\ UNCHANGED <<localtime, single, fleet, bulk, otherVars>>

\* predictor.generate_time_series_projection(predictions, horizon_hours=...,
\* interval_hours=...), some time after the predictions were made
Projection(horizon_hours, interval_hours, later) ==
    /\ phase = "predicted"
    /\ bulk.out = "ok"
    /\ phase' = "analysed"
    /\ analysis' = [op |-> "projection", horizon_hours |-> horizon_hours,
                    interval_hours |-> interval_hours,
                    res |-> generate_time_series_projection(
                                bulk.list, localtime.t + later,
                                horizon_hours, interval_hours)]
    /\ UNCHANGED <<localtime, single, fleet, bulk, otherVars>>

NextPredict ==
    \/ \E vessel \in Vessels(localtime.t) : PredictOne(vessel)
    \/ \E vessel \in FleetVessels(localtime.t) : AddVessel(vessel)
    \/ PredictBulk
    \/ \E pred \in HandBuilt(localtime.t) : AddPrediction(pred)
    \/ \E window_hours \in WindowSizes : ArrivalWindows(window_hours)
    \/ \E hi \in Horizons, later \in Delays : Projection(hi[1], hi[2], later)

SpecPredict == InitPredict /\ [][NextPredict]_vars


(***************************************************************************)
(* Claims about the predictor                                              *)
(***************************************************************************)
\* C17: every predict_arrival_time call returns, with a confidence between
\* 0 and 1 and a predicted arrival not before the reference time; and
\* predict_bulk_arrivals returns predictions whose hours_to_arrival are not
\* negative.
PredictionWithinBounds ==
    /\ single.ran
       => /\ single.res.e = "ok"
          /\ 0 <= single.res.confidence
          /\ single.res.confidence <= CScale
          /\ single.res.predicted >= localtime.t
    /\ phase \in {"predicted", "analysed"}
       => /\ bulk.out = "ok"
          /\ \A k \in 1..Len(bulk.list) : bulk.list[k].hours_to_arrival >= 0

\* the adjustments of the rules the claim lists, as <<factor, confidence>>
StatusRule(vessel) ==
    LET text == IF "status" \in DOMAIN vessel THEN Lower(vessel["status"].s)
                ELSE Lower(UnderWay)
    IN  IF Contains(text, Anchor) THEN <<15, -10>>
        ELSE IF Contains(text, Moored) THEN <<25, -15>>
        ELSE <<0, 0>>

SpeedRule(vessel) ==
    LET speed == IF "speed" \in DOMAIN vessel THEN vessel["speed"] ELSE PyFloat(120)
    IN  IF speed.sp = "fin" /\ AsTenths(speed) < 5 * FScale THEN <<20, -15>>
        ELSE IF speed.sp = "inf" \/ (speed.sp = "fin" /\ AsTenths(speed) > 15 * FScale)
        THEN <<-5, 5>>
        ELSE <<0, 0>>

\* C18: the correction factor and the confidence of a prediction are 1.0 and
\* 0.85 plus the adjustment of at most one status rule ('anchor' before
\* 'moored', ignoring case) and of at most one speed rule; a moored vessel
\* slower than 5 knots gets 1.45 and 0.55.
CorrectionRules ==
    (single.ran /\ single.res.e = "ok")
    => /\ single.res.factor = 100 + StatusRule(single.vessel)[1] + SpeedRule(single.vessel)[1]
       /\ single.res.confidence = 85 + StatusRule(single.vessel)[2] + SpeedRule(single.vessel)[2]
       /\ (StatusRule(single.vessel) = <<25, -15>> /\ SpeedRule(single.vessel) = <<20, -15>>)
          => (single.res.factor = 145 /\ single.res.confidence = 55)

\* C18 witness: a vessel whose status is "MOORED" at 2.0 knots has been
\* predicted with factor 1.45 and confidence 0.55.
CorrectionRulesWitness ==
    /\ single.ran
    /\ single.res.e = "ok"
    /\ "status" \in DOMAIN single.vessel
    /\ single.vessel["status"] = PyStr(MooredLoud)
    /\ "speed" \in DOMAIN single.vessel
    /\ single.vessel["speed"] = PyFloat(20)
    /\ single.res.factor = 145
    /\ single.res.confidence = 55

\* a prediction whose timestamp calculate_arrival_windows can read
WellFormed(pred) ==
    \/ pred.predicted_eta_epoch.ty # "none" /\ pred.predicted_eta_epoch.n # 0
    \/ pred.predicted_eta.kind \in {"naive", "aware"}

\* how often the windows hold an entry with this ETA text
Placed(windows, text) ==
    Cardinality({ <<i, j>> \in (1..Len(windows)) \X (1..(MaxFleet + 2)) :
                    /\ j <= Len(windows[i].vessels)
                    /\ windows[i].vessels[j].eta = text })

\* C19: for a window size of at least 1, every window starts on a block
\* boundary of the day, is keyed by its start and ends one window size
\* later; every ETA it holds lies in it; every prediction with a
\* well-formed timestamp is in exactly one window and no other prediction
\* is in any.
WindowsHoldTheirPredictions ==
    (analysis.op = "windows" /\ analysis.window_hours >= 1)
    => /\ \A i \in 1..Len(analysis.windows) :
            LET window == analysis.windows[i]
            IN  /\ window.start.t % TicksPerHour = 0
                /\ ((window.start.t \div TicksPerHour) % 24) % analysis.window_hours = 0
                /\ window.key = strftime_hour(window.start.t)
                /\ window.end.t = window.start.t + Hours(analysis.window_hours)
                /\ \A j \in 1..Len(window.vessels) :
                      /\ window.start.t <= window.vessels[j].eta.t
                      /\ window.vessels[j].eta.t < window.end.t
                /\ \A k \in 1..Len(analysis.windows) :
                      analysis.windows[k].key = window.key => k = i
       /\ \A n \in 1..Len(bulk.list) :
            Placed(analysis.windows, bulk.list[n].predicted_eta)
              = Cardinality({ k \in 1..Len(bulk.list) :
                                /\ WellFormed(bulk.list[k])
                                /\ bulk.list[k].predicted_eta = bulk.list[n].predicted_eta })

\* the ETA text the projection reads from a prediction
EtaOf(pred) ==
    IF TextTruthy(pred.predicted_eta) THEN pred.predicted_eta ELSE pred.declared_eta

\* the least number of intervals that cover the horizon
CeilOf(h, i) == CHOOSE n \in 1..h : n * i >= h /\ (n - 1) * i < h

\* C20: for a positive horizon h and interval i, and predictions whose ETA
\* texts carry no UTC offset, the projection has ceil(h/i) buckets; the
\* first starts at now, each is i hours wide and ends where the next
\* starts; expected_arrivals counts the predictions whose ETA lies in the
\* bucket and cumulative_expected is the running sum; an empty list with
\* h = 48 and i = 6 gives 8 buckets without arrivals and no trend line.
ProjectionBuckets ==
    (/\ analysis.op = "projection"
     /\ analysis.horizon_hours > 0
     /\ analysis.interval_hours > 0
     /\ \A k \in 1..Len(bulk.list) : EtaOf(bulk.list[k]).kind # "aware")
    => LET res == analysis.res
           buckets == res.buckets
       IN  /\ res.out = "ok"
           /\ res.generated_at >= localtime.t
           /\ Len(buckets) = CeilOf(analysis.horizon_hours, analysis.interval_hours)
           /\ buckets[1].window_start = IsoText(res.generated_at)
           /\ \A b \in 1..Len(buckets) :
                /\ buckets[b].window_end.t
                     = buckets[b].window_start.t + Hours(analysis.interval_hours)
                /\ b > 1 => buckets[b].window_start = buckets[b - 1].window_end
                /\ buckets[b].expected_arrivals
                     = Cardinality({ k \in 1..Len(bulk.list) :
                                       /\ EtaOf(bulk.list[k]).kind = "naive"
                                       /\ buckets[b].window_start.t <= EtaOf(bulk.list[k]).t
                                       /\ EtaOf(bulk.list[k]).t < buckets[b].window_end.t })
                /\ buckets[b].cumulative_expected
                     = buckets[b].expected_arrivals
                       + (IF b = 1 THEN 0 ELSE buckets[b - 1].cumulative_expected)
           /\ (bulk.list = <<>> /\ analysis.horizon_hours = 48 /\ analysis.interval_hours = 6)
              => /\ Len(buckets) = 8
                 /\ \A b \in 1..8 : buckets[b].expected_arrivals = 0
                 /\ res.trendline = "none"

\* C20 witness: a horizon of 6 hours in intervals of 4 has given two
\* buckets, the second with an arrival, and a trend line.
ProjectionBucketsWitness ==
    /\ analysis.op = "projection"
    /\ analysis.horizon_hours = 6
    /\ analysis.interval_hours = 4
    /\ analysis.res.out = "ok"
    /\ Len(bulk.list) >= 2
    /\ Len(analysis.res.buckets) = 2
    /\ analysis.res.buckets[2].expected_arrivals >= 1
    /\ analysis.res.buckets[2].cumulative_expected >= analysis.res.buckets[2].expected_arrivals
    /\ analysis.res.trendline # "none"


\* the buckets of a projection that carry a trend estimate
Estimated(buckets) == { k \in 1..Len(buckets) : "trend_estimate" \in DOMAIN buckets[k] }

\* C21 as stated: a trend line and the trend estimates are there exactly
\* when at least two buckets have a nonzero count, and no estimate is
\* negative.
TrendNeedsTwoBusyBuckets ==
    (analysis.op = "projection" /\ analysis.res.out = "ok")
    => LET buckets == analysis.res.buckets
           busy == { k \in 1..Len(buckets) : buckets[k].expected_arrivals # 0 }
       IN  /\ analysis.res.trendline # "none" <=> Cardinality(busy) >= 2
           /\ Estimated(buckets) = IF Cardinality(busy) >= 2 THEN 1..Len(buckets) ELSE {}
           /\ \A k \in Estimated(buckets) : buckets[k].trend_estimate.num >= 0

\* C21 amended: a trend line and the trend estimates are there exactly when
\* there are at least two buckets and at least one has a nonzero count;
\* then every bucket carries an estimate, otherwise none does, and no
\* estimate is negative.
TrendNeedsOneBusyBucket ==
    (analysis.op = "projection" /\ analysis.res.out = "ok")
    => LET buckets == analysis.res.buckets
           busy == { k \in 1..Len(buckets) : buckets[k].expected_arrivals # 0 }
           fitted == Len(buckets) >= 2 /\ busy # {}
       IN  /\ analysis.res.trendline # "none" <=> fitted
           /\ Estimated(buckets) = IF fitted THEN 1..Len(buckets) ELSE {}
           /\ \A k \in Estimated(buckets) :
                 /\ buckets[k].trend_estimate.num >= 0
                 /\ buckets[k].trend_estimate.den > 0

\* C21 witness: of eight buckets only the second has arrivals; the trend
\* falls, the first bucket's estimate is positive and the last one's, which
\* the line puts below zero, is 0.
TrendNeedsOneBusyBucketWitness ==
    /\ analysis.op = "projection"
    /\ analysis.res.out = "ok"
    /\ Len(analysis.res.buckets) = 8
    /\ { k \in 1..8 : analysis.res.buckets[k].expected_arrivals # 0 } = {2}
    /\ analysis.res.trendline = "Trend decrescente"
    /\ Estimated(analysis.res.buckets) = 1..8
    /\ analysis.res.buckets[1].trend_estimate.num > 0
    /\ analysis.res.buckets[8].trend_estimate.num = 0

\* C29 as stated: for a positive horizon and interval and ETA texts without
\* a UTC offset, every bucket ends at now + horizon at the latest, so no
\* counted ETA lies beyond the horizon, and the last cumulative_expected is
\* the number of predictions whose ETA lies in [now, now + horizon).
NothingCountedBeyondHorizon ==
    (/\ analysis.op = "projection"
     /\ analysis.horizon_hours > 0
     /\ analysis.interval_hours > 0
     /\ analysis.res.out = "ok")
    => LET res == analysis.res
           horizon_end == res.generated_at + Hours(analysis.horizon_hours)
       IN  /\ \A b \in 1..Len(res.buckets) :
                 res.buckets[b].expected_arrivals > 0
                   => res.buckets[b].window_end.t <= horizon_end
           /\ res.buckets[Len(res.buckets)].cumulative_expected
                = Cardinality({ k \in 1..Len(bulk.list) :
                                  /\ EtaOf(bulk.list[k]).kind = "naive"
                                  /\ res.generated_at <= EtaOf(bulk.list[k]).t
                                  /\ EtaOf(bulk.list[k]).t < horizon_end })

\* the ETAs of the predictions, offset-free texts only, within [from, to)
EtasWithin(from, to) ==
    { k \in 1..Len(bulk.list) :
        /\ EtaOf(bulk.list[k]).kind = "naive"
        /\ from <= EtaOf(bulk.list[k]).t
        /\ EtaOf(bulk.list[k]).t < to }

\* C29 amended: for a positive horizon h and interval i the buckets span
\* [now, now + ceil(h/i) * i); every counted ETA lies in that span and the
\* last cumulative_expected is the number of predictions with an ETA in it;
\* the span is the horizon [now, now + h) exactly when i divides h.
NothingCountedBeyondBuckets ==
    (/\ analysis.op = "projection"
     /\ analysis.horizon_hours > 0
     /\ analysis.interval_hours > 0
     /\ analysis.res.out = "ok")
    => LET res == analysis.res
           n == Len(res.buckets)
           span_end == res.generated_at
                         + Hours(CeilOf(analysis.horizon_hours, analysis.interval_hours)
                                   * analysis.interval_hours)
           horizon_end == res.generated_at + Hours(analysis.horizon_hours)
       IN  /\ res.buckets[n].window_end.t = span_end
           /\ \A b \in 1..n :
                 /\ res.generated_at <= res.buckets[b].window_start.t
                 /\ res.buckets[b].window_end.t <= span_end
           /\ res.buckets[n].cumulative_expected
                = Cardinality(EtasWithin(res.generated_at, span_end))
           /\ span_end >= horizon_end
           /\ span_end = horizon_end
                <=> analysis.horizon_hours % analysis.interval_hours = 0

\* C29 witness: a horizon of 6 hours in intervals of 4; a prediction with
\* an ETA at or after now + 6 h is counted in the second bucket, which ends
\* at now + 8 h.
NothingCountedBeyondBucketsWitness ==
    /\ analysis.op = "projection"
    /\ analysis.horizon_hours = 6
    /\ analysis.interval_hours = 4
    /\ analysis.res.out = "ok"
    /\ EtasWithin(analysis.res.generated_at + Hours(6),
                  analysis.res.generated_at + Hours(8)) # {}
    /\ analysis.res.buckets[2].expected_arrivals >= 1
    /\ analysis.res.buckets[2].cumulative_expected
         > Cardinality(EtasWithin(analysis.res.generated_at,
                                  analysis.res.generated_at + Hours(6)))

\* C27 as stated: cache keys are independent; a key that was stored and a
\* different key that is loaded have different files, and a load for a key
\* that returns a payload returns one stored under that key: its provider,
\* port and radius are the key's.
LoadReturnsOwnKey ==
    loaded.ran
    => /\ \A key \in DOMAIN stored.last :
            key # loaded.key => PathOf(key) # PathOf(loaded.key)
       /\ loaded.res.out = "payload"
            => CacheKey(loaded.res.payload[1].provider,
                        loaded.res.payload[1].port,
                        loaded.res.payload[1].radius) = loaded.key

\* C28 as stated: after any sequence of register calls, a key that get
\* resolves gives the metadata that the registry now records for that
\* metadata's canonical name; no alias of an earlier registration of the
\* name still gives the earlier class.
ResolvesToCurrentMetadata ==
    (found.op = "get" /\ found.res.e = "ok")
    => \E i \in 1..Len(registry.by_name) :
          /\ registry.by_name[i].name = found.res.meta[1].name
          /\ registry.by_name[i] = found.res.meta[1]

(***************************************************************************)
(* The operational clusterer (vessel_clustering.py). A vessel is a dict    *)
(* with some of the keys mmsi, ship_type, length and eta; a dict of lists  *)
(* is the sequence of its items in insertion order. Percentages, hours and *)
(* days are in tenths, as round(x, 1) reports them.                        *)
(***************************************************************************)
\* a ship type, a str
ShipType(name) == [ty |-> "str", name |-> name]

\* vessel.get(key, default)
VesselGet(vessel, key, default) == IF key \in DOMAIN vessel THEN vessel[key] ELSE default

\* round(num / den, 1 decimal) for num and den in the same unit, num / den
\* counted in tenths: the nearest integer, a tie going to the even one
RoundRatio(num, den) ==
    LET q == num \div den
        r == num % den
    IN  IF 2 * r < den THEN q
        ELSE IF 2 * r > den THEN q + 1
        ELSE IF q % 2 = 0 THEN q ELSE q + 1

\* clusters[key].append(vessel) on a dict of lists
GroupAppend(clusters, key, vessel) ==
    IF \E i \in 1..Len(clusters) : clusters[i].key = key
    THEN [i \in 1..Len(clusters) |->
            IF clusters[i].key = key
            THEN [clusters[i] EXCEPT !.vessels = Append(@, vessel)]
            ELSE clusters[i]]
    ELSE Append(clusters, [key |-> key, vessels |-> <<vessel>>])

\* VesselClusterer.cluster_by_ship_type(vessels)
RECURSIVE cluster_by_ship_type(_, _)
cluster_by_ship_type(vessels, clusters) ==
    IF vessels = <<>> THEN clusters
    ELSE cluster_by_ship_type(
            Tail(vessels),
            GroupAppend(clusters, VesselGet(Head(vessels), "ship_type", ShipType("Unknown")),
                        Head(vessels)))

\* the window of cluster_by_arrival_time a vessel goes to at
\* datetime.now() = t_now: "skip" when the loop goes on without the vessel
ArrivalWindowOf(vessel, time_window_hours, t_now) ==
    LET eta_str == VesselGet(vessel, "eta", NoText)
        eta == datetime_fromisoformat(eta_str)
        window_index == (eta.t - t_now) \div Hours(time_window_hours)
    IN  IF ~TextTruthy(eta_str) THEN [e |-> "skip", start |-> 0, end |-> 0]
        ELSE IF eta.e # "ok" \/ eta.aware THEN [e |-> "skip", start |-> 0, end |-> 0]
        ELSE IF eta.t < t_now THEN [e |-> "skip", start |-> 0, end |-> 0]
        ELSE [e |-> "ok", start |-> window_index * time_window_hours,
              end |-> (window_index + 1) * time_window_hours]

\* VesselClusterer.cluster_by_arrival_time(vessels, time_window_hours); the
\* key "a-bh" is the record of a and b
RECURSIVE cluster_by_arrival_time(_, _, _, _)
cluster_by_arrival_time(vessels, time_window_hours, t_now, clusters) ==
    IF vessels = <<>> THEN clusters
    ELSE LET window == ArrivalWindowOf(Head(vessels), time_window_hours, t_now)
         IN  cluster_by_arrival_time(
                Tail(vessels), time_window_hours, t_now,
                IF window.e = "skip" THEN clusters
                ELSE GroupAppend(clusters, [start |-> window.start, end |-> window.end],
                                 Head(vessels)))

\* the group cluster_by_size puts a length in
SizeGroup(length) ==
    IF AsTenths(length) < 150 * FScale THEN "small"
    ELSE IF AsTenths(length) < 250 * FScale THEN "medium"
    ELSE "large"

\* VesselClusterer.cluster_by_size(vessels)
cluster_by_size(vessels) ==
    LET group(i) == SizeGroup(VesselGet(vessels[i], "length", PyInt(0)))
        members(name) == SelectSeq([i \in 1..Len(vessels) |-> i], LAMBDA i : group(i) = name)
        listed(name) == [k \in 1..Len(members(name)) |-> vessels[members(name)[k]]]
    IN  [small |-> listed("small"), medium |-> listed("medium"), large |-> listed("large")]

\* base_operational_times.get(ship_type, 16)
base_operational_times(ship_type) ==
    CASE ship_type.name = "Container Ship" -> 24
      [] ship_type.name = "Cargo" -> 18
      [] ship_type.name = "Tanker" -> 20
      [] ship_type.name = "Bulk Carrier" -> 22
      [] ship_type.name = "Passenger Ship" -> 8
      [] OTHER -> 16

\* size_factor, in tenths
size_factor(length) ==
    IF AsTenths(length) < 150 * FScale THEN 8
    ELSE IF AsTenths(length) > 250 * FScale THEN 13
    ELSE 10

\* the estimate of one vessel
OperationalEstimate(vessel) ==
    LET ship_type == VesselGet(vessel, "ship_type", ShipType("Unknown"))
        length == VesselGet(vessel, "length", PyInt(200))
        estimated_time == base_operational_times(ship_type) * size_factor(length)
    IN  [ship_type |-> ship_type,
         estimated_operational_hours |-> estimated_time,
         estimated_operational_days |-> RoundRatio(estimated_time, 24),
         length |-> length,
         confidence |-> 75]

\* estimates[vessel_id] = entry
EstimatesSet(estimates, vessel_id, entry) ==
    IF \E i \in 1..Len(estimates) : estimates[i].vessel_id = vessel_id
    THEN [i \in 1..Len(estimates) |->
            IF estimates[i].vessel_id = vessel_id
            THEN [vessel_id |-> vessel_id, estimate |-> entry]
            ELSE estimates[i]]
    ELSE Append(estimates, [vessel_id |-> vessel_id, estimate |-> entry])

UnknownId == PyStr(<<"u", "n", "k", "n", "o", "w", "n">>)

\* VesselClusterer.estimate_operational_times(vessels)
RECURSIVE estimate_operational_times(_, _)
estimate_operational_times(vessels, estimates) ==
    IF vessels = <<>> THEN estimates
    ELSE estimate_operational_times(
            Tail(vessels),
            EstimatesSet(estimates, VesselGet(Head(vessels), "mmsi", UnknownId),
                         OperationalEstimate(Head(vessels))))

\* sorted(time_clusters.keys(), key=sort_key): where a window goes in the
\* sorted list, after the windows with the same start
RECURSIVE InsertWindow(_, _)
InsertWindow(acc, cluster) ==
    IF acc = <<>> THEN <<cluster>>
    ELSE IF cluster.key.start < Head(acc).key.start THEN <<cluster>> \o acc
    ELSE <<Head(acc)>> \o InsertWindow(Tail(acc), cluster)

RECURSIVE SortedWindows(_, _)
SortedWindows(clusters, acc) ==
    IF clusters = <<>> THEN acc
    ELSE SortedWindows(Tail(clusters), InsertWindow(acc, Head(clusters)))

\* is_congested with the window at capacity counted as congested
IsCongested_when_full(vessels_count, max_berths) == vessels_count >= max_berths

\* 'is_congested': vessels_count > max_berths
IsCongested(vessels_count, max_berths) == vessels_count > max_berths

\* the entry of time_windows for one window
WindowReport(cluster, max_berths) ==
    LET vessels_count == Len(cluster.vessels)
    IN  [window |-> cluster.key,
         arriving_vessels |-> vessels_count,
         utilization_percent |-> RoundRatio(vessels_count * 100 * FScale, max_berths),
         is_congested |-> IsCongested(vessels_count, max_berths)]

RECURSIVE SumArriving(_)
SumArriving(windows) ==
    IF windows = <<>> THEN 0 ELSE Head(windows).arriving_vessels + SumArriving(Tail(windows))

\* VesselClusterer.analyze_port_capacity(vessels, max_berths) at
\* datetime.now() = t_now; vessel_types and utilization_std_dev are left out
analyze_port_capacity(vessels, max_berths, t_now) ==
    LET time_clusters == cluster_by_arrival_time(vessels, 12, t_now, <<>>)
        ordered == SortedWindows(time_clusters, <<>>)
    IN  IF ordered # <<>> /\ max_berths = 0
        THEN [out |-> "ZeroDivisionError", max_berths |-> max_berths, time_windows |-> <<>>,
              overall_utilization |-> 0, potential_congestion |-> FALSE,
              peak_utilization |-> 0]
        ELSE LET time_windows == [i \in 1..Len(ordered) |->
                                    WindowReport(ordered[i], max_berths)]
                 peak == CHOOSE i \in 1..Len(time_windows) :
                            \A j \in 1..Len(time_windows) :
                                time_windows[j].arriving_vessels
                                    <= time_windows[i].arriving_vessels
             IN  [out |-> "ok", max_berths |-> max_berths, time_windows |-> time_windows,
                  overall_utilization |->
                     IF time_windows = <<>> THEN 0
                     ELSE RoundRatio(SumArriving(time_windows) * 100 * FScale,
                                     max_berths * Len(time_windows)),
                  potential_congestion |->
                     \E i \in 1..Len(time_windows) : time_windows[i].is_congested,
                  peak_utilization |->
                     IF time_windows = <<>> THEN 0
                     ELSE RoundRatio(time_windows[peak].arriving_vessels * 100 * FScale,
                                     max_berths)]

\* VesselClusterer.get_cluster_summary(vessels) at datetime.now() = t_now
get_cluster_summary(vessels, t_now) ==
    [total_vessels |-> Len(vessels),
     by_type |-> cluster_by_ship_type(vessels, <<>>),
     by_arrival_time |-> cluster_by_arrival_time(vessels, 6, t_now, <<>>),
     by_size |-> cluster_by_size(vessels),
     operational_estimates |-> estimate_operational_times(vessels, <<>>),
     capacity_analysis |-> analyze_port_capacity(vessels, 10, t_now)]

(***************************************************************************)
(* The clusterer scenario: a caller collects vessels and calls one method  *)
(* of a VesselClusterer.                                                   *)
(***************************************************************************)
\* the largest number of vessels a caller adds to the list
MaxRoster == 2

ClusterClock == At(2024, 5, 1, 10, 30)

\* the dict with the keys whose value is given
ClusterVessel(mmsi, ship_type, length, eta) ==
    LET given == [mmsi |-> mmsi, ship_type |-> ship_type, length |-> length, eta |-> eta]
    IN  [k \in {key \in DOMAIN given : given[key] # Absent} |-> given[k]]

\* vessels of every size group, on and next to the thresholds; two with the
\* same mmsi, two without mmsi; ETAs absent, unparseable, past, at the later
\* clock reading, in the first and in later 12-hour windows, with an offset
ClusterVessels ==
    { ClusterVessel(PyInt(1), ShipType("Cargo"), PyInt(100), IsoText(ClusterClock + Hours(5))),
      ClusterVessel(PyInt(1), ShipType("Tanker"), PyInt(250), IsoText(ClusterClock + Hours(13))),
      ClusterVessel(PyInt(2), ShipType("Container Ship"), PyInt(251), IsoText(ClusterClock + Hours(6))),
      ClusterVessel(PyInt(3), ShipType("Yacht"), PyInt(150), JunkText),
      ClusterVessel(PyInt(4), ShipType("Passenger Ship"), PyFloat(1495),
                    AwareText(ClusterClock + Hours(5))),
      ClusterVessel(PyInt(5), ShipType("Bulk Carrier"), PyInt(300), IsoText(ClusterClock + Hours(30))),
      ClusterVessel(Absent, ShipType("Cargo"), PyInt(149), IsoText(ClusterClock - Hours(1))),
      ClusterVessel(Absent, Absent, Absent, Absent),
      ClusterVessel(PyInt(6), Absent, Absent, IsoText(ClusterClock + Hours(5))) }

\* fifteen cargo ships due in five hours
Convoy ==
    [i \in 1..15 |->
        ClusterVessel(PyInt(100 + i), ShipType("Cargo"), PyInt(200), IsoText(ClusterClock + Hours(5)))]

BerthCounts == {0, 1, 2, 3, 10}

InitCluster ==
    /\ phase = "clusterer"
    /\ now = DateTime(2024, 5, 1, 10, 30, 0)
    /\ dest = Naples
    /\ roster \in {NoRoster, Convoy}
    /\ clustered = NotClustered
    /\ IdleMonitor
    /\ IdleNorm
    /\ IdleFetch
    /\ IdleCache
    /\ IdleClient
    /\ IdleWriters
    /\ IdleRegistry
    /\ IdlePredictor

nonClusterVars == <<now, dest, normVars, fetchVars, cacheVars, clientVars, writerVars, regVars,
                    predVars, monitorVars>>

\* vessels.append(vessel)
AddToRoster(vessel) ==
    /\ phase = "clusterer"
    /\ Len(roster) < MaxRoster
    /\ roster' = Append(roster, vessel)
    /\ UNCHANGED <<phase, clustered, nonClusterVars>>

\* clusterer.cluster_by_size(vessels)
ClusterBySize ==
    /\ phase = "clusterer"
    /\ phase' = "clustered"
    /\ clustered' = [op |-> "by_size", res |-> cluster_by_size(roster)]
    /\ UNCHANGED <<roster, nonClusterVars>>

\* clusterer.estimate_operational_times(vessels)
EstimateOperationalTimes ==
    /\ phase = "clusterer"
    /\ phase' = "clustered"
    /\ clustered' = [op |-> "estimates", res |-> estimate_operational_times(roster, <<>>)]
    /\ UNCHANGED <<roster, nonClusterVars>>

\* clusterer.analyze_port_capacity(vessels, max_berths=max_berths), later
\* than the clock reading the ETAs were written at
AnalyzePortCapacity(max_berths, later) ==
    /\ phase = "clusterer"
    /\ phase' = "clustered"
    /\ clustered' = [op |-> "capacity", t_now |-> ClusterClock + later,
                     res |-> analyze_port_capacity(roster, max_berths, ClusterClock + later)]
    /\ UNCHANGED <<roster, nonClusterVars>>

\* clusterer.get_cluster_summary(vessels)
ClusterSummary(later) ==
    /\ phase = "clusterer"
    /\ phase' = "clustered"
    /\ clustered' = [op |-> "summary", t_now |-> ClusterClock + later,
                     res |-> get_cluster_summary(roster, ClusterClock + later)]
    /\ UNCHANGED <<roster, nonClusterVars>>

NextCluster ==
    \/ \E vessel \in ClusterVessels : AddToRoster(vessel)
    \/ ClusterBySize
    \/ EstimateOperationalTimes
    \/ \E max_berths \in BerthCounts : \E later \in Delays :
            AnalyzePortCapacity(max_berths, later)
    \/ \E later \in Delays : ClusterSummary(later)

SpecCluster == InitCluster /\ [][NextCluster]_vars

(***************************************************************************)
(* The monitor (marine_traffic_monitor.py). MarineTrafficMonitor builds    *)
(* its client with MarineTrafficClient(api_key, data_provider=...) and     *)
(* asks it for get_port_traffic_statistics(port_name, vessels=vessels).    *)
(* The class in marine_traffic_client.py takes neither keyword; the class  *)
(* the monitor is written for is the resilience layer of the               *)
(* specification: it takes both, and its calls never raise.                *)
(***************************************************************************)
ClientClasses == {"api_key_only", "with_data_provider"}

\* the keyword arguments the resilience-layer client accepts: of __init__
\* besides api_key, of get_port_traffic_statistics besides port_name
ProviderClientInitKeywords == {"data_provider"}
ProviderClientStatisticsKeywords == {"days", "vessels"}

\* the keyword arguments get_port_traffic_statistics of
\* marine_traffic_client.py accepts besides port_name
StatisticsKeywords == {"days"}

\* MarineTrafficClient(api_key, **keywords) for the installed class
InstalledClient_init(cls, keywords) ==
    IF cls = "api_key_only" THEN MarineTrafficClient_init(keywords)
    ELSE IF keywords \subseteq ProviderClientInitKeywords THEN "client" ELSE "TypeError"

\* client.get_port_traffic_statistics(port_name, **keywords)
get_port_traffic_statistics(cls, port_name, keywords, vessels) ==
    IF keywords \subseteq (IF cls = "api_key_only" THEN StatisticsKeywords
                           ELSE ProviderClientStatisticsKeywords)
    THEN [out |-> "ok", port |-> port_name, current_vessels |-> Len(vessels)]
    ELSE [out |-> "TypeError", port |-> port_name, current_vessels |-> 0]

\* MarineTrafficMonitor(api_key, target_ports, data_provider=None,
\* enable_projections=..., projection_horizon_hours=...,
\* projection_interval_hours=...): the object, or what the constructor raises
MarineTrafficMonitor_init(cls, target_ports, enable_projections, projection_horizon_hours, projection_interval_hours) ==
    IF InstalledClient_init(cls, {"data_provider"}) # "client"
    THEN [made |-> InstalledClient_init(cls, {"data_provider"})]
    ELSE [made |-> "monitor", client |-> cls, target_ports |-> target_ports,
          enable_projections |-> enable_projections,
          projection_horizon_hours |-> projection_horizon_hours,
          projection_interval_hours |-> projection_interval_hours]

\* ArrivalPredictor.get_priority_arrivals(predictions, hours_threshold)
get_priority_arrivals(predictions, hours_threshold) ==
    SelectSeq(predictions,
              LAMBDA pred : /\ pred.hours_to_arrival <= hours_threshold * FScale
                            /\ pred.hours_to_arrival >= 0)

\* series_projection = None
NoProjection == [out |-> "none"]

\* what monitor_port raises
MonitorRaise(exc) == [out |-> exc]

\* the return value of monitor_port, or what it raises, from the values of
\* its local variables; projection is what the call of
\* generate_time_series_projection gives
PortReport(mon, port_name, vessels, predictions, cluster_summary, statistics, projection) ==
    IF predictions.out # "ok" THEN MonitorRaise(predictions.out)
    ELSE IF statistics.out # "ok" THEN MonitorRaise(statistics.out)
    ELSE [out |-> "report",
          port |-> port_name,
          vessels |-> vessels,
          predictions |-> predictions.list,
          arrival_windows |-> calculate_arrival_windows(predictions.list, 6, "utc", <<>>),
          priority_arrivals |-> get_priority_arrivals(predictions.list, 12),
          operational_estimates |-> Len(cluster_summary.operational_estimates),
          capacity_analysis |-> cluster_summary.capacity_analysis,
          statistics |-> statistics,
          series_projection |->
             IF mon.enable_projections /\ projection.out = "ok" THEN projection
             ELSE NoProjection]

\* MarineTrafficMonitor.monitor_port(port_name) at datetime.now() = t_now,
\* when the client returns vessels: the report, or the exception raised
monitor_port(mon, port_name, vessels, t_now) ==
    CHOOSE report \in
        UNION { { PortReport(mon, port_name, vessels, predictions, cluster_summary,
                             statistics, projection) :
                    projection \in { generate_time_series_projection(
                                        predictions.list, t_now,
                                        mon.projection_horizon_hours,
                                        mon.projection_interval_hours) },
                    cluster_summary \in { get_cluster_summary(vessels, t_now) },
                    statistics \in { get_port_traffic_statistics(
                                        mon.client, port_name, {"vessels"}, vessels) } } :
                predictions \in { predict_bulk_arrivals(vessels, t_now, "utc") } } : TRUE

\* results[port] = entry
ResultsSet(entries, port, entry) ==
    IF \E i \in 1..Len(entries) : entries[i].port = port
    THEN [i \in 1..Len(entries) |->
            IF entries[i].port = port THEN [port |-> port, entry |-> entry]
            ELSE entries[i]]
    ELSE Append(entries, [port |-> port, entry |-> entry])

\* the loop body with a failing port leaving no entry
AfterPort_losing_failures(entries, port, outcome) ==
    IF outcome.out = "report" THEN ResultsSet(entries, port, outcome)
    ELSE entries

\* the body of the loop of monitor_all_ports: the results after one port
AfterPort(entries, port, outcome) ==
    IF outcome.out = "report" THEN ResultsSet(entries, port, outcome)
    ELSE ResultsSet(entries, port, [error |-> outcome.out])

\* MarineTrafficMonitor.monitor_all_ports() when the client returns feed[i]
\* for the i-th target port; runs is the history of the monitor_port calls
RECURSIVE monitor_all_ports(_, _, _, _, _)
monitor_all_ports(mon, feed, t_now, i, acc) ==
    IF i > Len(mon.target_ports) THEN acc
    ELSE monitor_all_ports(
            mon, feed, t_now, i + 1,
            CHOOSE next \in
                { [out |-> "ok",
                   results |-> AfterPort(acc.results, mon.target_ports[i], outcome),
                   runs |-> Append(acc.runs, outcome.out)] :
                    outcome \in { monitor_port(mon, mon.target_ports[i], feed[i], t_now) } } :
                TRUE)

(***************************************************************************)
(* The monitor scenario: a caller constructs a monitor and monitors one    *)
(* port or all target ports.                                               *)
(***************************************************************************)
\* the largest number of target ports
MaxPorts == 2

PortNames == {Naples, Rome}

PortLists == UNION { [1..n -> PortNames] : n \in 0..MaxPorts }

Ship(mmsi, eta, status) == [mmsi |-> PyInt(mmsi), eta |-> eta, status |-> PyStr(status)]

\* what the client returns for a port: no vessel, one vessel, two records
\* of one vessel, a vessel whose ETA makes predict_bulk_arrivals raise
MonitorFeeds(t) ==
    { <<>>,
      <<Ship(1, IsoText(t + Hours(5)), UnderWay)>>,
      <<Ship(1, IsoText(t + Hours(5)), UnderWay), Ship(1, IsoText(t + Hours(30)), MooredLoud)>>,
      <<Ship(2, IsoText(At(9999, 12, 31, 23, 30)), AtAnchor)>> }

InitMonitor ==
    /\ phase = "monitor"
    /\ now = DateTime(2024, 5, 1, 10, 30, 0)
    /\ dest = Naples
    /\ installed \in ClientClasses
    /\ monitor = NoMonitor
    /\ results = NoResults
    /\ IdleClusterer
    /\ IdleNorm
    /\ IdleFetch
    /\ IdleCache
    /\ IdleClient
    /\ IdleWriters
    /\ IdleRegistry
    /\ IdlePredictor

nonMonitorVars == <<now, dest, normVars, fetchVars, cacheVars, clientVars, writerVars, regVars,
                    predVars, clusterVars>>

\* monitor = MarineTrafficMonitor(api_key, target_ports, ...)
ConstructMonitor(target_ports, enable_projections, horizon_hours, interval_hours) ==
    /\ phase = "monitor"
    /\ monitor = NoMonitor
    /\ monitor' = MarineTrafficMonitor_init(installed, target_ports, enable_projections,
                                            horizon_hours, interval_hours)
    /\ UNCHANGED <<phase, installed, results, nonMonitorVars>>

\* monitor.monitor_port(port_name)
MonitorPort(port_name, t_now) ==
    /\ phase = "monitor"
    /\ monitor.made = "monitor"
    /\ phase' = "reported"
    /\ \E vessels \in MonitorFeeds(t_now) :
            results' = [op |-> "port", res |-> monitor_port(monitor, port_name, vessels, t_now)]
    /\ UNCHANGED <<installed, monitor, nonMonitorVars>>

\* monitor.monitor_all_ports()
MonitorAllPorts(t_now) ==
    /\ phase = "monitor"
    /\ monitor.made = "monitor"
    /\ phase' = "reported"
    /\ \E feed \in [1..Len(monitor.target_ports) -> MonitorFeeds(t_now)] :
            results' = [op |-> "all",
                        res |-> monitor_all_ports(monitor, feed, t_now, 1,
                                                  [out |-> "ok", results |-> <<>>,
                                                   runs |-> <<>>])]
    /\ UNCHANGED <<installed, monitor, nonMonitorVars>>

NextMonitor ==
    \/ \E target_ports \in PortLists : \E enable_projections \in BOOLEAN :
       \E hi \in Horizons :
            ConstructMonitor(target_ports, enable_projections, hi[1], hi[2])
    \/ \E port_name \in PortNames : \E t_now \in PredictorClocks :
            MonitorPort(port_name, t_now)
    \/ \E t_now \in PredictorClocks : MonitorAllPorts(t_now)

SpecMonitor == InitMonitor /\ [][NextMonitor]_vars

(***************************************************************************)
(* Claims about the clusterer                                              *)
(***************************************************************************)
\* the vessels of the list whose ETA is a local timestamp within
\* [t_now + from hours, t_now + to hours)
DueWithin(t_now, from, to) ==
    { k \in 1..Len(roster) :
        LET eta == VesselGet(roster[k], "eta", NoText)
        IN  /\ eta.kind = "naive"
            /\ t_now + Hours(from) <= eta.t
            /\ eta.t < t_now + Hours(to) }

\* C23: analyze_port_capacity with max_berths >= 1 lists exactly the
\* 12-hour windows, counted from now, in which some vessel's ETA (a local
\* timestamp not before now) lies, in ascending order of their start hour;
\* for every window arriving_vessels is the number of those vessels, the
\* utilization is count / max_berths * 100 to the one decimal reported,
\* and is_congested holds exactly when count > max_berths;
\* potential_congestion holds iff some window is congested; 15 vessels in
\* one window with max_berths = 10 give a congested window and
\* potential_congestion.
CapacityWindows ==
    (clustered.op = "capacity" /\ clustered.res.max_berths >= 1)
    => LET res == clustered.res
           windows == res.time_windows
           t_now == clustered.t_now
       IN  /\ res.out = "ok"
           /\ \A i \in 1..Len(windows) :
                LET w == windows[i]
                IN  /\ w.window.start >= 0
                    /\ w.window.start % 12 = 0
                    /\ w.window.end = w.window.start + 12
                    /\ w.arriving_vessels >= 1
                    /\ w.arriving_vessels
                         = Cardinality(DueWithin(t_now, w.window.start, w.window.end))
                    /\ 2 * (w.utilization_percent * res.max_berths
                              - w.arriving_vessels * 100 * FScale) <= res.max_berths
                    /\ 2 * (w.arriving_vessels * 100 * FScale
                              - w.utilization_percent * res.max_berths) <= res.max_berths
                    /\ w.is_congested <=> w.arriving_vessels > res.max_berths
                    /\ i > 1 => windows[i - 1].window.start < w.window.start
           /\ \A k \in 1..Len(roster) :
                LET eta == VesselGet(roster[k], "eta", NoText)
                IN  (eta.kind = "naive" /\ eta.t >= t_now)
                    => \E i \in 1..Len(windows) :
                          k \in DueWithin(t_now, windows[i].window.start,
                                          windows[i].window.end)
           /\ res.potential_congestion
                <=> \E i \in 1..Len(windows) : windows[i].is_congested
           /\ (res.max_berths = 10 /\ \E i \in 1..Len(windows) :
                                        windows[i].arriving_vessels = 15)
              => /\ res.potential_congestion
                 /\ \E i \in 1..Len(windows) :
                       windows[i].arriving_vessels = 15 /\ windows[i].is_congested

\* C23 witness: fifteen vessels due in the same window and ten berths: one
\* window, 150.0 percent, congested.
CapacityWindowsWitness ==
    /\ clustered.op = "capacity"
    /\ clustered.res.max_berths = 10
    /\ Len(roster) = 15
    /\ Len(clustered.res.time_windows) = 1
    /\ clustered.res.time_windows[1].arriving_vessels = 15
    /\ clustered.res.time_windows[1].utilization_percent = 150 * FScale
    /\ clustered.res.time_windows[1].is_congested
    /\ clustered.res.potential_congestion

\* the group the claim gives a length: small below 150, large above 250
ClaimedGroup(length) ==
    IF AsTenths(length) < 150 * FScale THEN "small"
    ELSE IF AsTenths(length) <= 250 * FScale THEN "medium"
    ELSE "large"

\* how often a vessel occurs in a list
Occurrences(list, vessel) == Cardinality({ k \in 1..Len(list) : list[k] = vessel })

\* C24 as stated: cluster_by_size partitions the list: every vessel is in
\* exactly one of small, medium and large, and a vessel with a length is in
\* small iff length < 150, in medium iff 150 <= length <= 250, in large iff
\* length > 250.
SizePartition ==
    clustered.op = "by_size"
    => LET res == clustered.res
       IN  /\ \A k \in 1..Len(roster) :
                Occurrences(res.small, roster[k]) + Occurrences(res.medium, roster[k])
                    + Occurrences(res.large, roster[k])
                  = Occurrences(roster, roster[k])
           /\ Len(res.small) + Len(res.medium) + Len(res.large) = Len(roster)
           /\ \A name \in {"small", "medium", "large"} :
                \A k \in 1..Len(res[name]) :
                    "length" \in DOMAIN res[name][k]
                      => ClaimedGroup(res[name][k]["length"]) = name

\* the vessels of the list whose identifier no other vessel of the list has
SingleId(k) ==
    \A j \in 1..Len(roster) :
        VesselGet(roster[j], "mmsi", UnknownId) = VesselGet(roster[k], "mmsi", UnknownId)
          => j = k

\* the estimate written for the k-th vessel
EstimateOf(estimates, k) ==
    (CHOOSE e \in { estimates[i] : i \in 1..Len(estimates) } :
        e.vessel_id = VesselGet(roster[k], "mmsi", UnknownId)).estimate

\* the group of by_size that holds the k-th vessel
GroupOf(by_size, k) ==
    CHOOSE name \in {"small", "medium", "large"} :
        \E i \in 1..Len(by_size[name]) : by_size[name][i] = roster[k]

\* C26 as stated: for every vessel, with or without a length field, the
\* estimate is the base time of its type times 0.8 iff cluster_by_size puts
\* the vessel in small, times 1.0 iff in medium, times 1.3 iff in large.
SizeFactorAgreesWithGroup ==
    clustered.op = "summary"
    => \A k \in 1..Len(roster) :
          SingleId(k)
          => LET estimate == EstimateOf(clustered.res.operational_estimates, k)
                 base == base_operational_times(estimate.ship_type)
                 group == GroupOf(clustered.res.by_size, k)
             IN  /\ estimate.estimated_operational_hours = base * 8 <=> group = "small"
                 /\ estimate.estimated_operational_hours = base * 10 <=> group = "medium"
                 /\ estimate.estimated_operational_hours = base * 13 <=> group = "large"

\* C30 as stated: estimate_operational_times returns one estimate per input
\* vessel: the result has as many entries as the list has vessels, also
\* when two vessels share an mmsi or a vessel has none.
OneEstimatePerVessel ==
    clustered.op = "estimates" => Len(clustered.res) = Len(roster)

LastRun(i) ==
    CHOOSE j \in i..Len(monitor.target_ports) :
        /\ monitor.target_ports[j] = monitor.target_ports[i]
        /\ \A k \in (j + 1)..Len(monitor.target_ports) :
              monitor.target_ports[k] # monitor.target_ports[i]

=============================================================================
